---- MODULE Spec2Model ----
(***************************************************************************)
(* The interactive draft shell of draft_app.py (class MainPrompt) as a     *)
(* state machine.  One action per command line; each action is the whole   *)
(* cmdloop step: precmd (VORP refresh) followed by the do_* handler and     *)
(* everything the handler calls.                                           *)
(*                                                                         *)
(* Tables are pandas DataFrames: a sequence of rows in row order, each row *)
(* carrying its index label (key).  The columns that no command ever       *)
(* writes (player, team, pos, tier, vols, ...) are looked up through the   *)
(* row's player id in PlayerData; the columns that commands do write       *)
(* (vorp in ap, manager and pick in pp) are stored in the row.             *)
(***************************************************************************)
EXTENDS Integers, Sequences, FiniteSets, TLC

\* ------------------------------------------------------------------ bounds
NPlayers == 4          \* rows of the available table handed to the shell
MaxData == 3           \* longest observation sequence given to a model
MaxTeams == 4          \* largest league of the draft-order specification
MaxBench == 2          \* most bench slots per team given to the value pipeline

\* ------------------------------------------------------- Python sentinels
None == 0 - 1000       \* Python None (integer-coded so TLC can compare it)
NaN  == 0 - 2000       \* an empty DataFrame cell

\* ------------------------------------------------------------- class data
main_positions == <<"QB", "RB", "WR", "TE", "K", "DST">>
flex_pos == {"RB", "WR", "TE"}
key_positions == {"QB", "RB", "WR", "TE"}
crap_positions == {"K", "DST"}
known_strategies == {"vols", "vbsd", "volb", "vorp", "adp", "ecp"}
default_disabled_pos == <<"K", "DST">>

Range(f) == {f[x] : x \in DOMAIN f}

\* the output of the value pipeline, sorted by auction and re-indexed 0..:
\* one record per player, the columns the shell only reads
PlayerData ==
  <<[pos |-> "RB",  tier |-> "RB1",  vols |-> 8, vbsd |-> 6, volb |-> 9,
     adp |-> 1, ecp |-> 2, exp_proj |-> 30, name |-> "smith"],
    [pos |-> "QB",  tier |-> "QB1",  vols |-> 6, vbsd |-> 7, volb |-> 7,
     adp |-> 3, ecp |-> 1, exp_proj |-> 40, name |-> "smith"],
    [pos |-> "K",   tier |-> "K1",   vols |-> 0, vbsd |-> 0, volb |-> 0,
     adp |-> 5, ecp |-> 5, exp_proj |-> 12, name |-> "lee"],
    [pos |-> "DST", tier |-> "DST1", vols |-> 0, vbsd |-> 0 - 1, volb |-> 0 - 1,
     adp |-> 4, ecp |-> 3, exp_proj |-> 11, name |-> "bears"],
    [pos |-> "QB",  tier |-> "QB1",  vols |-> 0, vbsd |-> 1, volb |-> 1,
     adp |-> 2, ecp |-> 4, exp_proj |-> 34, name |-> "jones"],
    [pos |-> "RB",  tier |-> "BU",   vols |-> 0 - 1, vbsd |-> 0 - 2, volb |-> 0 - 2,
     adp |-> 6, ecp |-> 6, exp_proj |-> 20, name |-> "ward"],
    [pos |-> "K",   tier |-> "FA",   vols |-> 0 - 3, vbsd |-> 0 - 3, volb |-> 0 - 3,
     adp |-> 8, ecp |-> 7, exp_proj |-> 9, name |-> "kim"],
    [pos |-> "WR",  tier |-> "BU",   vols |-> 0 - 2, vbsd |-> 0 - 4, volb |-> 0 - 4,
     adp |-> 7, ecp |-> 8, exp_proj |-> 18, name |-> "hill"],
    [pos |-> "QB",  tier |-> "BU",   vols |-> 0 - 2, vbsd |-> 0 - 3, volb |-> 0 - 3,
     adp |-> 9, ecp |-> 9, exp_proj |-> 28, name |-> "young"],
    [pos |-> "K",   tier |-> "K1",   vols |-> 1, vbsd |-> 1, volb |-> 1,
     adp |-> 10, ecp |-> 10, exp_proj |-> 13, name |-> "kay"],
    [pos |-> "DST", tier |-> "DST1", vols |-> 2, vbsd |-> 2, volb |-> 2,
     adp |-> 11, ecp |-> 11, exp_proj |-> 14, name |-> "jets"],
    [pos |-> "DST", tier |-> "FA",   vols |-> 0 - 4, vbsd |-> 0 - 5, volb |-> 0 - 5,
     adp |-> 16, ecp |-> 16, exp_proj |-> 7, name |-> "rams"],
    [pos |-> "TE",  tier |-> "TE1",  vols |-> 5, vbsd |-> 5, volb |-> 6,
     adp |-> 12, ecp |-> 12, exp_proj |-> 22, name |-> "kelce"],
    [pos |-> "WR",  tier |-> "WR1",  vols |-> 7, vbsd |-> 8, volb |-> 8,
     adp |-> 13, ecp |-> 13, exp_proj |-> 26, name |-> "rice"],
    [pos |-> "RB",  tier |-> "RB1",  vols |-> 4, vbsd |-> 3, volb |-> 5,
     adp |-> 14, ecp |-> 14, exp_proj |-> 24, name |-> "payton"],
    [pos |-> "TE",  tier |-> "BU",   vols |-> 0 - 5, vbsd |-> 0 - 6, volb |-> 0 - 6,
     adp |-> 15, ecp |-> 15, exp_proj |-> 15, name |-> "gates"]>>

PD(id) == PlayerData[id + 1]

\* command-line tokens that int() accepts, and their values
Digits == <<"0", "1", "2", "3", "4", "5", "6", "7", "8", "9">>
IsIntTok(t) == t \in Range(Digits)
IntOf(t) == (CHOOSE i \in DOMAIN Digits : Digits[i] = t) - 1
TokOf(i) == Digits[i + 1]

\* league settings of main(): --n-teams and the --n-<slot> arguments
Roster(qb, rb, wr, te, flex, dst, k, bench) ==
  [QB |-> qb, RB |-> rb, WR |-> wr, TE |-> te, FLEX |-> flex,
   DST |-> dst, K |-> k, BENCH |-> bench]
Leagues ==
  { [n_teams |-> 2, roster |-> Roster(1, 0, 0, 0, 0, 0, 0, 0)],
    [n_teams |-> 2, roster |-> Roster(1, 0, 0, 0, 0, 1, 1, 0)] }

VARIABLES
  ap,                   \* MainPrompt.ap: available players
  pp,                   \* MainPrompt.pp: picked players, in pick order
  pp_cols,              \* which of the columns manager / pick pp has gained
  draft_mode,
  i_manager_turn,
  manager_picks,
  user_manager,
  manager_names,
  manager_auto_strats,
  disabled_pos,
  n_teams,
  n_roster_per_team,
  bench_is_same_object, \* outcome of  pos.upper() is not 'BENCH'  for 'BENCH'
  files,                \* label -> saved pair of csv files
  out,                  \* what the last command printed
  crashed,              \* an exception left cmdloop: the session is over
  last,                 \* the verb of the last command line
  recs,                 \* the picks the last command recommended
  calc                  \* the last call into the statistics library

vars == <<ap, pp, pp_cols, draft_mode, i_manager_turn, manager_picks,
          user_manager, manager_names, manager_auto_strats, disabled_pos,
          n_teams, n_roster_per_team, bench_is_same_object, files, out,
          crashed, last, recs, calc>>

\* no library call has been made
Idle == [fn |-> "idle"]

\* ------------------------------------------------------- DataFrame helpers
Keys(df) == {df[i].key : i \in DOMAIN df}
RowAt(df, k) == df[CHOOSE i \in DOMAIN df : df[i].key = k]
Drop(df, k) == SelectSeq(df, LAMBDA r : r.key # k)
SetRow(df, k, row) == [i \in DOMAIN df |-> IF df[i].key = k THEN row ELSE df[i]]
\* df.loc[k] = row : overwrite the row labelled k, or append a new one
LocAssign(df, k, row) == IF k \in Keys(df) THEN SetRow(df, k, row) ELSE Append(df, row)
Rows(df) == {df[i] : i \in DOMAIN df}
PosRows(df, pos) == SelectSeq(df, LAMBDA r : PD(r.id).pos = pos)
Put(d, k, v) == [x \in DOMAIN d \cup {k} |-> IF x = k THEN v ELSE d[x]]
EmptyDict == [x \in {} |-> 0]
PyIndex(seq, i) == IF i >= 0 THEN seq[i + 1] ELSE seq[Len(seq) + i + 1]

Max(S) == CHOOSE x \in S : \A y \in S : y <= x
Min(S) == CHOOSE x \in S : \A y \in S : x <= y

\* ------------------------------------------------------------ _update_vorp
\* the value at position index of vals sorted in descending order
NthLargest(vals, index) ==
  CHOOSE v \in Range(vals) :
    /\ Len(SelectSeq(vals, LAMBDA x : x > v)) <= index
    /\ Len(SelectSeq(vals, LAMBDA x : x >= v)) > index

\* the vols of the rows of pos_baseline: the backups and the worst starter
PosBaselineVols(pos_draftable) ==
  LET backups == SelectSeq(pos_draftable, LAMBDA r : PD(r.id).tier = "BU")
      starters == SelectSeq(pos_draftable, LAMBDA r : PD(r.id).tier # "BU")
      vol(df) == [i \in DOMAIN df |-> PD(df[i].id).vols]
  IN IF Len(starters) > 0
       THEN Append(vol(backups), Min(Range(vol(starters))))
       ELSE vol(backups)

\* the value _update_vorp writes into the vorp cell of an available row
VorpOf(row, a, p) ==
  LET pos == PD(row.id).pos
      pos_picked == PosRows(p, pos)
      n_pos_picked == Len(pos_picked)
      n_waiv_picked == Len(SelectSeq(pos_picked, LAMBDA r : PD(r.id).tier = "FA"))
      posdf == PosRows(a, pos)
      pos_draftable == SelectSeq(posdf, LAMBDA r : PD(r.id).tier # "FA")
      n_pos_draftable == Len(pos_draftable) - n_waiv_picked
      vols == PD(row.id).vols
  IN IF n_pos_draftable <= 0
       THEN vols - Max({PD(r.id).vols : r \in Rows(posdf)})
       ELSE LET base == PosBaselineVols(pos_draftable)
                n_pos_baseline == Len(base)
                \* int(frac_through_bench * n_pos_baseline)
                index == (n_pos_picked * n_pos_baseline)
                           \div (n_pos_picked + n_pos_draftable)
            IN IF n_pos_baseline = 0 THEN vols
               ELSE vols - NthLargest(base, index)

UpdateVorp(a, p) == [i \in DOMAIN a |-> [a[i] EXCEPT !.vorp = VorpOf(a[i], a, p)]]

\* ------------------------------------------------------ draft state helpers
GetCurrentManager(s) ==
  IF s.manager_picks = <<>> \/ s.i_manager_turn = None THEN None
  ELSE IF s.i_manager_turn >= Len(s.manager_picks) THEN None
  ELSE PyIndex(s.manager_picks, s.i_manager_turn)

GetManagerRoster(manager, p, cols) ==
  IF Len(p) = 0 THEN p
  ELSE IF "manager" \in cols THEN SelectSeq(p, LAMBDA r : r.manager = manager)
  ELSE p

TotalRosterSpots == n_roster_per_team.QB + n_roster_per_team.RB
                    + n_roster_per_team.WR + n_roster_per_team.TE
                    + n_roster_per_team.FLEX + n_roster_per_team.DST
                    + n_roster_per_team.K + n_roster_per_team.BENCH

\* sum over the slots with  pos.upper() is not 'BENCH'
StartingRosterSpots ==
  IF bench_is_same_object THEN TotalRosterSpots - n_roster_per_team.BENCH
  ELSE TotalRosterSpots

\* ---------------------------------------------------------------- _pick_rec
AcceptablePositions(manager, p, cols) ==
  LET roster == GetManagerRoster(manager, p, cols)
      have(pos) == Len(PosRows(roster, pos))
      n == n_roster_per_team
      needed_crap_starter_positions == {pos \in crap_positions : have(pos) < n[pos]}
      key_nonflex_positions == key_positions \ flex_pos
      used_flex_spot == \E pos \in flex_pos : have(pos) > n[pos]
      flex_mult == IF used_flex_spot THEN 0 ELSE 1
      needed_key_starter_positions ==
        {pos \in key_nonflex_positions : have(pos) < n[pos]}
        \cup {pos \in flex_pos : have(pos) < n[pos] + flex_mult * n.FLEX}
      current_roster_size == Len(roster)
      acceptable_crap == {pos \in crap_positions : have(pos) < n[pos]}
      acceptable_backup == {pos \in key_positions : have(pos) < n[pos] + (n.BENCH \div 2)}
  IN IF needed_key_starter_positions # {} THEN needed_key_starter_positions
     ELSE IF current_roster_size + Cardinality(needed_crap_starter_positions)
               >= StartingRosterSpots
       THEN needed_crap_starter_positions
     ELSE acceptable_backup \cup acceptable_crap

StratValue(row, strat) ==
  CASE strat = "vorp" -> row.vorp
    [] strat = "vols" -> PD(row.id).vols
    [] strat = "vbsd" -> PD(row.id).vbsd
    [] strat = "volb" -> PD(row.id).volb
    [] strat = "adp" -> PD(row.id).adp
    [] strat = "ecp" -> PD(row.id).ecp

\* variant: the disabled positions are not removed
AllowedPositions_KeepDisabled(manager, p, cols, disabled) ==
  LET acceptable_positions == AcceptablePositions(manager, p, cols)
  IN IF acceptable_positions = {} THEN key_positions ELSE acceptable_positions

\* the positions the sort-key branch of _pick_rec chooses from
AllowedPositions(manager, p, cols, disabled) ==
  LET acceptable_positions == AcceptablePositions(manager, p, cols) \ disabled
  IN IF acceptable_positions = {} THEN key_positions ELSE acceptable_positions

\* _pick_rec with a sort-key strategy.  err is the exception it raises, if
\* any; cands are the index labels sort_values may put first (rows that tie
\* on the sort key come out in an order the sort does not promise).
PickRec(manager, strat, a, p, cols, disabled) ==
  IF strat \notin known_strategies THEN [err |-> "KeyError", cands |-> {}]
  ELSE
  LET a1 == IF strat = "vorp" THEN UpdateVorp(a, p) ELSE a
      allowed == AllowedPositions(manager, p, cols, disabled)
      toppicks == SelectSeq(a1, LAMBDA r : PD(r.id).pos \in allowed)
      asc == strat \in {"adp", "ecp"}
      val(r) == StratValue(r, strat)
      first == {r \in Rows(toppicks) :
                  \A q \in Rows(toppicks) :
                    IF asc THEN val(r) <= val(q) ELSE val(r) >= val(q)}
  IN IF Len(toppicks) = 0 THEN [err |-> "IndexError", cands |-> {}]
     ELSE [err |-> "", cands |-> {r.key : r \in first}]

\* ------------------------------------------------- the shell's mutable state
\* nothing recommended: recs.strat maps a sort-key strategy to the index label
\* do_recommend printed for it, recs.vona a vona sub-strategy to the label
\* and to whether _pick_rec fell back to vols for it
NoRecs == [strat |-> EmptyDict, vona |-> EmptyDict]
\* exc is the exception in flight (""  when there is none)
Cur == [ap |-> ap, pp |-> pp, pp_cols |-> pp_cols, draft_mode |-> draft_mode,
        i_manager_turn |-> i_manager_turn, manager_picks |-> manager_picks,
        user_manager |-> user_manager, manager_names |-> manager_names,
        manager_auto_strats |-> manager_auto_strats,
        disabled_pos |-> disabled_pos, recs |-> NoRecs, out |-> {}, exc |-> ""]

Say(s, msg) == [s EXCEPT !.out = @ \cup {msg}]
Raise(s, e) == [s EXCEPT !.exc = e]
\* except IndexError as e: print(e); print('could not pick player from list.')
CatchIndexError(s) ==
  IF s.exc = "IndexError"
    THEN [s EXCEPT !.exc = "", !.out = @ \cup {"could not pick player from list."}]
    ELSE s

\* self._update_vorp()
SelfUpdateVorp(s) == [s EXCEPT !.ap = UpdateVorp(s.ap, s.pp)]

\* precmd
Precmd(s) == SelfUpdateVorp(s)

\* ---------------------------------------------------- pop_from_player_list
PopFromPlayerList(s, index, manager, pickno) ==
  IF index \notin Keys(s.ap) THEN Raise(s, "IndexError")
  ELSE
  LET player == RowAt(s.ap, index)
      row == [key |-> index, id |-> player.id,
              manager |-> IF manager # None THEN manager ELSE NaN,
              pick |-> IF pickno # None THEN pickno ELSE NaN]
      pp1 == LocAssign(s.pp, index, row)
      cols1 == s.pp_cols \cup (IF manager # None THEN {"manager"} ELSE {})
                         \cup (IF pickno # None THEN {"pick"} ELSE {})
      \* astype(int) of a column that holds an empty cell
      bad_manager == manager # None /\ \E r \in Rows(pp1) : r.manager = NaN
      bad_pick == pickno # None /\ \E r \in Rows(pp1) : r.pick = NaN
  IN IF bad_manager \/ bad_pick
       THEN [s EXCEPT !.pp = pp1, !.pp_cols = cols1, !.exc = "ValueError"]
       ELSE [s EXCEPT !.pp = pp1, !.pp_cols = cols1, !.ap = Drop(s.ap, index),
                      !.out = @ \cup {"selecting"}]

\* ----------------------------------------------------- push_to_player_list
\* variant: the row is copied to ap but never dropped from pp
PushToPlayerList_NoDrop(s, index) ==
  IF index \notin Keys(s.pp) THEN Raise(s, "IndexError")
  ELSE
  LET player == RowAt(s.pp, index)
      row == [key |-> index, id |-> player.id, vorp |-> NaN]
  IN [s EXCEPT !.ap = LocAssign(s.ap, index, row), !.out = @ \cup {"replacing"}]

PushToPlayerList(s, index) ==
  IF index \notin Keys(s.pp) THEN Raise(s, "IndexError")
  ELSE
  LET player == RowAt(s.pp, index)
      row == [key |-> index, id |-> player.id, vorp |-> NaN]
  IN [s EXCEPT !.ap = LocAssign(s.ap, index, row), !.pp = Drop(s.pp, index),
               !.out = @ \cup {"replacing"}]

\* ------------------------------------------- _regress_snake, _advance_snake
\* variant: the turn is left where it is
RegressSnake_Stay(s) == s

RegressSnake(s) == [s EXCEPT !.i_manager_turn = @ - 1]

\* the branch of _advance_snake taken when the sequence is exhausted; over is
\* the state after 'Draft is over!' is printed
DraftIsOver(over) ==
  \* conf != 'y'
  (IF Len(over.pp) = 0
     THEN {Raise(Say(over, "Undoing last pick"), "IndexError")}
     ELSE {RegressSnake(PushToPlayerList(Say(over, "Undoing last pick"),
                                         over.pp[Len(over.pp)].key))})
  \cup \* conf == 'y'
  {Say(over, "You're done!")}

\* variant: the next manager's automatic strategy is never consulted
AdvanceSnake_Once(s) ==
  LET s1 == [s EXCEPT !.i_manager_turn = @ + 1]
  IN IF s1.i_manager_turn >= Len(s1.manager_picks)
       THEN DraftIsOver(Say(s1, "Draft is over!"))
       ELSE {s1}

\* The result is the set of states the call may return in (or raise out of,
\* when exc is set): one for each answer typed at 'Are you done [y/N]? ' and
\* for each player a sort with ties may put first.
RECURSIVE AdvanceSnake(_)
AdvanceSnake(s) ==
  LET s1 == [s EXCEPT !.i_manager_turn = @ + 1]
      manager == PyIndex(s1.manager_picks, s1.i_manager_turn)
      pickno == s1.i_manager_turn + 1
  IN IF s1.i_manager_turn >= Len(s1.manager_picks)
       THEN DraftIsOver(Say(s1, "Draft is over!"))
     ELSE IF manager \notin DOMAIN s1.manager_auto_strats THEN {s1}
     ELSE UNION {
            {CatchIndexError(x) : x \in
               IF rec.err # "" THEN {Raise(s2, rec.err)}
               ELSE UNION {IF popped.exc # "" THEN {popped} ELSE AdvanceSnake(popped)
                           : popped \in {PopFromPlayerList(s2, player_index, manager, pickno)
                                         : player_index \in rec.cands}}}
          : <<s2, rec>> \in
              {<<u, PickRec(manager, u.manager_auto_strats[manager],
                            u.ap, u.pp, u.pp_cols, {})>>
               : u \in {SelfUpdateVorp(s1)}}}

\* ------------------------------------------------------------------ do_pick
\* str.contains(simplify_name(args)) on the simplified player names
NameHit(id, args) == Len(args) = 1 /\ (args[1] = "" \/ PD(id).name = args[1])

\* the part of do_pick from  pickno = ...  on
PickIndex(s, index, manager) ==
  LET pickno == IF s.draft_mode THEN s.i_manager_turn + 1 ELSE None
  IN UNION {
       IF popped.exc # "" THEN {CatchIndexError(popped)}
       ELSE UNION {IF updated.draft_mode
                     THEN {CatchIndexError(x) : x \in AdvanceSnake(updated)}
                     ELSE {updated}
                   : updated \in {SelfUpdateVorp(popped)}}
     : popped \in {PopFromPlayerList(s, index, manager, pickno)}}

\* args is args.lower().split(' ')
DoPick(s, args) ==
  LET manager == GetCurrentManager(s)
      by_strat == manager # None /\ args[1] \in known_strategies
      by_number == ~by_strat /\ Len(args) = 1 /\ IsIntTok(args[1])
      s1 == IF manager # None /\ Len(args) > 1 /\ args[2] = "auto"
              THEN [s EXCEPT !.manager_auto_strats = Put(@, manager, args[1])]
            ELSE IF manager = None /\ args[1] \in known_strategies
              THEN Say(s, "Must be in draft mode to set an automatic strategy.")
            ELSE s
      filtered == {r.key : r \in {q \in Rows(s.ap) : NameHit(q.id, args)}}
  IN UNION {
       IF by_strat /\ rec.err # "" THEN {Raise(s, rec.err)}
       ELSE IF ~by_strat /\ ~by_number /\ filtered = {}
         THEN {Say(s1, "Could not find available player")}
       ELSE IF ~by_strat /\ ~by_number /\ Cardinality(filtered) > 1
         THEN {Say(s1, "Found multiple players:")}
       ELSE UNION {PickIndex(s1, index, manager)
                   : index \in IF by_strat THEN rec.cands
                               ELSE IF by_number THEN {IntOf(args[1])}
                               ELSE filtered}
     : rec \in {PickRec(manager, args[1], s.ap, s.pp, s.pp_cols, {})}}

\* ---------------------------------------------------------------- do_unpick
\* variant: the first picked row is returned instead of the last
DoUnpick_First(s) ==
  IF Len(s.pp) > 0
    THEN LET Regress(u) == IF u.draft_mode THEN RegressSnake(u) ELSE u
         IN Regress(SelfUpdateVorp(PushToPlayerList(s, s.pp[1].key)))
    ELSE Say(s, "No players have been picked.")

DoUnpick(s) ==
  IF Len(s.pp) > 0
    THEN LET lasti == s.pp[Len(s.pp)].key
             Regress(u) == IF u.draft_mode THEN RegressSnake(u) ELSE u
             Finish(pushed) ==
               IF pushed.exc # ""
                 THEN [pushed EXCEPT !.exc = "",
                                     !.out = @ \cup {"could not put player back"}]
                 ELSE Regress(SelfUpdateVorp(pushed))
         IN Finish(PushToPlayerList(s, lasti))
    ELSE Say(s, "No players have been picked.")

\* ----------------------------------------------------------------- do_snake
\* variant: every round runs 1..n_teams
RECURSIVE SnakeRounds_Ascending(_, _, _)
SnakeRounds_Ascending(i, n_rounds, picks) ==
  IF i >= n_rounds THEN picks
  ELSE SnakeRounds_Ascending(i + 1, n_rounds, picks \o [j \in 1..n_teams |-> j])

\* the loop that builds manager_picks, from round i on
RECURSIVE SnakeRounds(_, _, _)
SnakeRounds(i, n_rounds, picks) ==
  IF i >= n_rounds THEN picks
  ELSE SnakeRounds(i + 1, n_rounds,
         picks \o (IF i % 2 = 0
                     THEN [j \in 1..n_teams |-> j]
                     ELSE [j \in 1..n_teams |-> n_teams + 1 - j]))

\* variant: only the draft_mode guard
SnakeRefusal_DraftModeOnly(s) ==
  IF s.draft_mode THEN "You are already in draft mode!" ELSE ""

\* the two guards at the top of do_snake: the message of the one that
\* refuses, "" when the draft may start
SnakeRefusal(s) ==
  IF s.draft_mode THEN "You are already in draft mode!"
  ELSE IF Len(s.pp) > 0 THEN "There are already picked players."
  ELSE ""

\* argstr is args.split(' '), or the line typed at the position prompt
DoSnake(s, argstr) ==
  IF SnakeRefusal(s) # "" THEN {Say(s, SnakeRefusal(s))}
  ELSE IF ~IsIntTok(argstr[1]) THEN {Say(s, "Could not cast argument to draft.")}
  ELSE
  LET s1 == [s EXCEPT !.user_manager = IntOf(argstr[1])]
      others == (1..n_teams) \ {s1.user_manager}
      strats == {argstr[i] : i \in 2..Len(argstr)} \cap known_strategies
      start(st) == [st EXCEPT !.draft_mode = TRUE,
                              !.manager_picks = SnakeRounds(0, TotalRosterSpots, <<>>),
                              !.i_manager_turn = 0 - 1,
                              !.out = @ \cup {"rounds of drafting commencing."}]
  IN IF s1.user_manager \notin 1..n_teams
       THEN {Say(s1, "Could not cast argument to draft.")}
     ELSE IF Len(argstr) > 1 /\ others # {} /\ strats = {}
       THEN {Raise(s1, "IndexError")}       \* random.choice([])
     ELSE UNION {
            AdvanceSnake(start(st))
          : st \in IF Len(argstr) > 1
                     THEN {[s1 EXCEPT !.manager_auto_strats =
                              [m \in DOMAIN @ \cup others |->
                                 IF m \in others THEN manstrat[m] ELSE @[m]]]
                           : manstrat \in [others -> strats]}
                     ELSE {s1}}

\* ------------------------------------------------------------------ do_name
DoName(s, args) ==
  IF args = <<"">> THEN Say(s, "usage: name [N] <manager name>")
  ELSE
  LET current == GetCurrentManager(s)
      is_int == IsIntTok(args[1])
      mannum == IF is_int THEN IntOf(args[1]) ELSE current
      manname == IF is_int THEN Tail(args) ELSE args
      s1 == IF ~is_int /\ current = None
              THEN Say(s, "Could not figure out a valid manager to assign name to.")
              ELSE s
  IN [s1 EXCEPT !.manager_names = Put(@, mannum, manname)]

\* ---------------------------------------------------- _get_managers_til_next
\* the managers from turn i_man on, up to the first repetition
RECURSIVE TakeDistinct(_, _)
TakeDistinct(rest, comp_mans) ==
  IF rest = <<>> \/ Head(rest) \in Range(comp_mans) THEN comp_mans
  ELSE TakeDistinct(Tail(rest), Append(comp_mans, Head(rest)))

\* err is the exception raised, mans the list returned
GetManagersTilNext(s) ==
  IF s.manager_picks = <<>> THEN [err |-> "", none |-> TRUE, mans |-> <<>>]
  ELSE IF s.i_manager_turn >= Len(s.manager_picks)
    THEN [err |-> "IndexError", none |-> FALSE, mans |-> <<>>]
  ELSE
  LET i_man == IF s.i_manager_turn >= 0 THEN s.i_manager_turn
               ELSE Len(s.manager_picks) + s.i_manager_turn
      current_team == s.manager_picks[i_man + 1]
      comp_mans == TakeDistinct(SubSeq(s.manager_picks, i_man + 1, Len(s.manager_picks)),
                                <<>>)
  IN [err |-> "", none |-> FALSE,
      mans |-> SelectSeq(comp_mans, LAMBDA m : m # current_team)]

\* ---------------------------------------------------------- do_next_managers
DoNextManagers(s) ==
  IF ~s.draft_mode THEN Say(s, "this command is only available in draft mode.")
  ELSE LET til == GetManagersTilNext(s)
       IN IF til.err # "" THEN Raise(s, til.err)
          ELSE IF til.none THEN Raise(s, "TypeError")    \* for man in None
          ELSE Say(s, "needs starters at:")

\* ---------------------------------------------------------------- do_roster
DoRoster(s, args) ==
  IF ~s.draft_mode
    THEN Say(s, "The roster command is only available in draft mode.")
  ELSE IF args = <<"all">> \/ args = <<"">> THEN Say(s, "roster")
  ELSE IF \E i \in DOMAIN args : ~IsIntTok(args[i])
    THEN Say(s, "roster requires integer arguments")
  ELSE Say(s, "roster")

\* ------------------------------------------- save_player_list, load_player_list
\* to_csv(index=False): the rows in row order, without their index labels
CsvOf(s) ==
  [ap |-> [i \in DOMAIN s.ap |-> [id |-> s.ap[i].id, vorp |-> s.ap[i].vorp]],
   pp |-> [i \in DOMAIN s.pp |-> [id |-> s.pp[i].id, manager |-> s.pp[i].manager,
                                  pick |-> s.pp[i].pick]],
   pp_cols |-> s.pp_cols]

\* do_load: read_csv numbers the rows of each file 0, 1, 2, ...
DoLoad(s, outname, fs) ==
  IF outname \notin DOMAIN fs THEN Raise(Say(s, "Could not find file"), "UnboundLocalError")
  ELSE LET f == fs[outname]
       IN [s EXCEPT
             !.ap = [i \in DOMAIN f.ap |->
                       [key |-> i - 1, id |-> f.ap[i].id, vorp |-> f.ap[i].vorp]],
             !.pp = [i \in DOMAIN f.pp |->
                       [key |-> i - 1, id |-> f.pp[i].id,
                        manager |-> f.pp[i].manager, pick |-> f.pp[i].pick]],
             !.pp_cols = f.pp_cols]

\* ------------------------------------------------------------------ cmdloop
\* one pass of the loop ends in state s: an exception still in flight leaves
\* cmdloop, main() writes the emergency backup and re-raises
Commit(s, line) ==
  /\ ap' = s.ap
  /\ pp' = s.pp
  /\ pp_cols' = s.pp_cols
  /\ draft_mode' = s.draft_mode
  /\ i_manager_turn' = s.i_manager_turn
  /\ manager_picks' = s.manager_picks
  /\ user_manager' = s.user_manager
  /\ manager_names' = s.manager_names
  /\ manager_auto_strats' = s.manager_auto_strats
  /\ disabled_pos' = s.disabled_pos
  /\ recs' = s.recs
  /\ out' = s.out
  /\ crashed' = (s.exc # "")
  /\ files' = IF s.exc # "" THEN Put(files, "draft_backup", CsvOf(s)) ELSE files
  /\ last' = line
  /\ UNCHANGED <<n_teams, n_roster_per_team, bench_is_same_object, calc>>

\* --------------------------------------------------------------- the inputs
PickArgs == {<<TokOf(i)>> : i \in 0..NPlayers}
            \cup {<<"vols">>, <<"vols", "auto">>, <<"lee">>}
SnakeArgs == {<<TokOf(i)>> : i \in 1..2} \cup {<<"9">>, <<"x">>}
             \cup {<<"1", "vols">>, <<"1", "bogus">>}
NameArgs == {<<"bob">>}
RosterArgs == {<<"">>}
Labels == {"draft_backup"}

\* ------------------------------------------------------------------ actions
Pick(args) ==
  /\ ~crashed
  /\ \E s \in DoPick(Precmd(Cur), args) : Commit(s, "pick")

Unpick ==
  /\ ~crashed
  /\ Commit(DoUnpick(Precmd(Cur)), "unpick")

Snake(argstr) ==
  /\ ~crashed
  /\ \E s \in DoSnake(Precmd(Cur), argstr) : Commit(s, "snake")

Name(args) ==
  /\ ~crashed
  /\ Commit(DoName(Precmd(Cur), args), "name")

NextManagers ==
  /\ ~crashed
  /\ Commit(DoNextManagers(Precmd(Cur)), "next_managers")

RosterCmd(args) ==
  /\ ~crashed
  /\ Commit(DoRoster(Precmd(Cur), args), "roster")

Load(outname) ==
  /\ ~crashed
  /\ Commit(DoLoad(Precmd(Cur), outname, files), "load")

\* ------------------------------------------------------------ specification
\* main(): the state handed to cmdloop.  With no BENCH slot both outcomes of
\* the identity test give the same StartingRosterSpots, so one is kept.
InitTable(leagues, ids) ==
  /\ \E league \in leagues :
       /\ n_teams = league.n_teams
       /\ n_roster_per_team = league.roster
       /\ bench_is_same_object \in
            (IF league.roster.BENCH > 0 THEN BOOLEAN ELSE {FALSE})
  /\ ap = [i \in DOMAIN ids |-> [key |-> i - 1, id |-> ids[i], vorp |-> NaN]]
  /\ pp = <<>>
  /\ pp_cols = {}
  /\ draft_mode = FALSE
  /\ i_manager_turn = None
  /\ manager_picks = <<>>
  /\ user_manager = None
  /\ manager_names = EmptyDict
  /\ manager_auto_strats = EmptyDict
  /\ disabled_pos = default_disabled_pos
  /\ files = EmptyDict
  /\ out = {}
  /\ crashed = FALSE
  /\ last = ""
  /\ recs = NoRecs
  /\ calc = Idle

\* the first NPlayers rows of the table
InitLeague(leagues) == InitTable(leagues, [i \in 1..NPlayers |-> i - 1])

Init == InitLeague(Leagues)

Next ==
  \/ \E args \in PickArgs : Pick(args)
  \/ Unpick
  \/ \E argstr \in SnakeArgs : Snake(argstr)

Spec == Init /\ [][Next]_vars

\* The draft order: leagues of 1..MaxTeams teams with rosters of one, two and
\* three rounds (bench and FLEX slots among them); the snake command only.
OrderRosters ==
  {Roster(1, 0, 0, 0, 0, 0, 0, 0), Roster(1, 0, 0, 0, 0, 0, 0, 1),
   Roster(1, 0, 0, 0, 1, 0, 0, 0), Roster(1, 0, 0, 0, 0, 1, 1, 0)}
OrderLeagues == {[n_teams |-> n, roster |-> r] : n \in 1..MaxTeams, r \in OrderRosters}

InitOrder == InitLeague(OrderLeagues)

NextOrder == \E argstr \in SnakeArgs : Snake(argstr)

SpecOrder == InitOrder /\ [][NextOrder]_vars

\* The whole shell on one league: the commands of Next and name, roster,
\* next_managers and load.
ShellLeagues == {[n_teams |-> 2, roster |-> Roster(1, 0, 0, 0, 0, 0, 0, 0)]}

InitShell == InitLeague(ShellLeagues)

NextShell ==
  \/ \E args \in PickArgs : Pick(args)
  \/ Unpick
  \/ \E argstr \in SnakeArgs : Snake(argstr)
  \/ \E args \in NameArgs : Name(args)
  \/ NextManagers
  \/ \E args \in RosterArgs : RosterCmd(args)
  \/ \E outname \in Labels : Load(outname)

SpecShell == InitShell /\ [][NextShell]_vars

\* ===================================================== statistics library
\* Calls into get_fantasy_points.py, bayes_models.py and playermodels/: each
\* action is one call, calc records its arguments and what it returned.

\* the shell is not running while the library is called on its own
ShellVars == <<ap, pp, pp_cols, draft_mode, i_manager_turn, manager_picks,
               user_manager, manager_names, manager_auto_strats, disabled_pos,
               n_teams, n_roster_per_team, bench_is_same_object, files, out,
               crashed, last, recs>>

\* ---------------------------------------------------------- get_points
\* rs is a rule set (points per event, in hundredths of a point), df a
\* mapping from stat keys to counts
\* variant: the quotient is truncated toward zero
FloorDiv_Truncate(a, b) == IF a >= 0 THEN a \div b ELSE 0 - ((0 - a) \div b)

\* Python's a // b for b > 0
FloorDiv(a, b) == a \div b

GetPoints(rs, df) ==
  LET gf(key) == IF key \in DOMAIN df THEN df[key] ELSE 0
  IN rs.ppPY * gf("pass_yds")
     + rs.ppPY25 * FloorDiv(gf("pass_yds"), 25)
     + rs.ppPC * gf("pass_cmp")
     + rs.ppINC * (gf("pass_att") - gf("pass_cmp"))
     + rs.ppPTD * gf("pass_td")
     + rs.ppINT * gf("pass_int")
     + rs.pp2PC * gf("pass_twoptm")
     + rs.ppRY * gf("rush_yds")
     + rs.ppRY10 * FloorDiv(gf("rush_yds"), 10)
     + rs.ppRTD * gf("rush_td")
     + rs.pp2PR * gf("rush_twoptm")
     + rs.ppREY * gf("rec_yds")
     + rs.ppREY10 * FloorDiv(gf("rec_yds"), 10)
     + rs.ppREC * gf("rec")
     + rs.ppRETD * gf("rec_td")
     + rs.pp2PRE * gf("rec_twoptm")
     + rs.ppFUML * gf("fumbles_lost")
     + rs.ppPAT * gf("xpm")
     + rs.ppFGM * (gf("fga") - gf("fgm"))
     + rs.ppFG0 * gf("fgm")

\* the coefficients of a rule set and the stat keys get_points reads
CoefKeys ==
  <<"ppPY", "ppPY25", "ppPC", "ppINC", "ppPTD", "ppINT", "pp2PC", "ppRY",
    "ppRY10", "ppRTD", "pp2PR", "ppREY", "ppREY10", "ppREC", "ppRETD",
    "pp2PRE", "ppFUML", "ppPAT", "ppFGM", "ppFG0">>
StatKeys ==
  {"pass_yds", "pass_cmp", "pass_att", "pass_td", "pass_int", "pass_twoptm",
   "rush_yds", "rush_td", "rush_twoptm", "rec_yds", "rec", "rec_td",
   "rec_twoptm", "fumbles_lost", "xpm", "fga", "fgm"}

\* rule sets: all ones; a different weight for every coefficient; yardage
\* and scoring weights with penalties; the yardage bonuses alone
Rulesets ==
  LET idx(c) == CHOOSE i \in DOMAIN CoefKeys : CoefKeys[i] = c
      names == Range(CoefKeys)
      none == [c \in names |-> 0]
  IN { [c \in names |-> 1],
       [c \in names |-> 7 * idx(c) + 3],
       [none EXCEPT !.ppPY = 4, !.ppPTD = 400, !.ppINT = 0 - 200, !.pp2PC = 200,
                    !.ppRY = 10, !.ppRTD = 600, !.pp2PR = 200, !.ppREY = 10,
                    !.ppREC = 50, !.ppRETD = 600, !.pp2PRE = 200,
                    !.ppFUML = 0 - 200, !.ppPAT = 100, !.ppFGM = 0 - 100,
                    !.ppFG0 = 300],
       [none EXCEPT !.ppPY25 = 100, !.ppRY10 = 100, !.ppREY10 = 100] }

\* stat records: a season line with every key, and the same line with some
\* keys absent
StatLines ==
  LET zero == [k \in StatKeys |-> 0]
  IN { zero,
       [zero EXCEPT !.pass_yds = 249, !.pass_cmp = 20, !.pass_att = 30,
                    !.pass_td = 2, !.pass_int = 1, !.pass_twoptm = 1,
                    !.rush_yds = 0 - 7, !.fumbles_lost = 1],
       [zero EXCEPT !.rush_yds = 119, !.rush_td = 1, !.rush_twoptm = 1,
                    !.rec_yds = 35, !.rec = 4, !.rec_td = 1, !.rec_twoptm = 1],
       [zero EXCEPT !.xpm = 3, !.fga = 4, !.fgm = 3] }
AbsentKeys == {"pass_yds", "rush_yds", "rec", "fga", "fgm"}
StatRecords ==
  {[k \in StatKeys \ absent |-> line[k]] : line \in StatLines, absent \in SUBSET AbsentKeys}

Score(rs, df) ==
  /\ calc.fn = "idle"
  /\ calc' = [fn |-> "get_points", rs |-> rs, df |-> df, result |-> GetPoints(rs, df)]
  /\ UNCHANGED ShellVars

\* ------------------------------------------------ beta_binomial_model_gen
\* dist_fit.beta_binomial / log_beta_binomial: the posterior predictive
\* distribution of a count out of n trials, named by its parameters
beta_binomial(n, alpha, beta) == [n |-> n, alpha |-> alpha, beta |-> beta]

\* variant: the state is advanced before the observation is scored
BBStep_UpdateFirst(st, d, n, lr, metric) ==
  [st EXCEPT !.scores = Append(@, [metric |-> metric, d |-> d,
                                   probs |-> beta_binomial(n, st.alpha + lr * d,
                                                           st.beta + lr * (n - d))]),
             !.alpha = @ + lr * d,
             !.beta = @ + lr * (n - d)]

\* one pass of  for d in data:  the score of d under the current (alpha,
\* beta), then the update
BBStep(st, d, n, lr, metric) ==
  [st EXCEPT !.scores = Append(@, [metric |-> metric, d |-> d,
                                   probs |-> beta_binomial(n, st.alpha, st.beta)]),
             !.alpha = @ + lr * d,
             !.beta = @ + lr * (n - d)]

RECURSIVE BBLoop(_, _, _, _, _)
BBLoop(st, data, n, lr, metric) ==
  IF data = <<>> THEN st
  ELSE BBLoop(BBStep(st, Head(data), n, lr, metric), Tail(data), n, lr, metric)

\* _mse, _mae and _kld (metric says which): the scores returned and the
\* locals alpha, beta at the return
beta_binomial_model_gen(metric, data, n, alpha0, beta0, lr) ==
  IF \E i \in DOMAIN data : data[i] < 0 \/ data[i] > n
    THEN [exc |-> "AssertionError", scores |-> <<>>, alpha |-> alpha0, beta |-> beta0]
    ELSE BBLoop([exc |-> "", scores |-> <<>>, alpha |-> alpha0, beta |-> beta0],
                data, n, lr, metric)

Metrics == {"mse", "mae", "kld"}
Trials == {3, 10}
Observations == {0, 1, 3, 10}
RECURSIVE SeqsUpTo(_, _)
SeqsUpTo(S, len) ==
  IF len = 0 THEN {<<>>}
  ELSE LET shorter == SeqsUpTo(S, len - 1)
       IN shorter \cup {Append(s, x) : s \in {q \in shorter : Len(q) = len - 1}, x \in S}
Priors == {<<1, 1>>, <<2, 5>>}
LearnRates == {1, 2}

BetaBinomial(metric, data, n, prior, lr) ==
  /\ calc.fn = "idle"
  /\ calc' = [fn |-> "bbinom", metric |-> metric, data |-> data, n |-> n,
              alpha0 |-> prior[1], beta0 |-> prior[2], lr |-> lr,
              result |-> beta_binomial_model_gen(metric, data, n, prior[1], prior[2], lr)]
  /\ UNCHANGED ShellVars

\* ------------------------------------------------- neg_binomial_model_gen
\* the for loops of _get_rps; data is flat ([shape |-> 1, vals]) or paired
\* ([shape |-> 2, num, den], the two rows of a 2-d array)
RECURSIVE RpsLoop(_, _, _, _)
RpsLoop(rs, bs, data, lr) ==
  IF data.shape = 2
    THEN IF data.num = <<>> THEN [rs |-> rs, bs |-> bs]
         ELSE RpsLoop(Append(rs, rs[Len(rs)] + lr * Head(data.num)),
                      Append(bs, bs[Len(bs)] + lr * Head(data.den)),
                      [data EXCEPT !.num = Tail(@), !.den = Tail(@)], lr)
    ELSE IF data.vals = <<>> THEN [rs |-> rs, bs |-> bs]
         ELSE RpsLoop(Append(rs, rs[Len(rs)] + lr * Head(data.vals)),
                      Append(bs, bs[Len(bs)] + lr * Head(data.vals)),
                      [data EXCEPT !.vals = Tail(@)], lr)

\* _get_rps: p0 and the returned ps are fractions num/den; b = (1-p0)/p0 is
\* a whole number for the p0 used here
get_rps(data, r0, p0, lr) ==
  LET Ps(bs) == [i \in DOMAIN bs |-> [num |-> 1, den |-> 1 + bs[i]]]
      Ret(end) == [rs |-> end.rs, ps |-> Ps(end.bs)]
  IN Ret(RpsLoop(<<r0>>, <<(p0.den - p0.num) \div p0.num>>, data, lr))

GetRps(data, r0, p0, lr) ==
  /\ calc.fn = "idle"
  /\ calc' = [fn |-> "get_rps", data |-> data, r0 |-> r0, p0 |-> p0, lr |-> lr,
              result |-> get_rps(data, r0, p0, lr)]
  /\ UNCHANGED ShellVars

\* ------------------------------------------------- constant models
\* const_delta_model_gen._kld: -inf where d == mu, +inf elsewhere
delta_kld(data, mu) ==
  [i \in DOMAIN data |-> IF data[i] = mu THEN "-inf" ELSE "inf"]

\* const_gauss_model_gen._kld. The name log is bound only as an attribute of
\* class bayes_model, never at module level, so line 64 raises NameError
\* before the warning is emitted and before delta_const.kld is called.
\* A finite divergence is kept as its two terms (mu-d)^2 / (2 var) and var.
gauss_kld(data, mu, var) ==
  IF var = 0
    THEN [exc |-> "NameError", warned |-> FALSE, ret |-> None]
    ELSE [exc |-> "", warned |-> FALSE,
          ret |-> [i \in DOMAIN data |->
                    [sq |-> (mu - data[i]) * (mu - data[i]), twovar |-> 2 * var]]]

GaussKld(data, mu, var) ==
  /\ calc.fn = "idle"
  /\ calc' = [fn |-> "gauss_kld", data |-> data, mu |-> mu, var |-> var,
              result |-> gauss_kld(data, mu, var)]
  /\ UNCHANGED ShellVars

\* ------------------------------------------------- playermodels/rushing
\* str.upper() on the position codes a caller can pass
Upper(pos) ==
  CASE pos \in {"rb", "Rb", "RB"} -> "RB"
    [] pos \in {"qb", "qB", "QB"} -> "QB"
    [] pos \in {"wr", "Wr", "WR"} -> "WR"
    [] pos \in {"te", "TE"} -> "TE"
    [] pos \in {"k", "K"} -> "K"
    [] pos \in {"dst", "DST"} -> "DST"
    [] pos \in {"flex", "FLEX"} -> "FLEX"

\* RushAttModel._default_hyperpars: the unsupported branches only log and
\* fall off the end of the function, which returns None
RushAtt_default_hyperpars(pos) ==
  LET p == Upper(pos) IN
  CASE p = "RB" -> [exc |-> "", log |-> <<>>,
                    ret |-> <<"0.756", "0.0756", "0.133", "0.503", "0.752">>]
    [] p = "QB" -> [exc |-> "", log |-> <<>>,
                    ret |-> <<"1.76", "0.58", "0.238", "0.494", "0.963">>]
    [] p = "WR" -> [exc |-> "", log |-> <<>>,
                    ret |-> <<"1.17", "7.03", "1.0", "0.545", "0.982">>]
    [] p = "TE" -> [exc |-> "", ret |-> None,
                    log |-> <<"TEs do not rush enough to try to predict them",
                              "positional defaults not implemented for TE">>]
    [] OTHER -> [exc |-> "", ret |-> None,
                 log |-> <<"positional defaults not implemented for " \o p>>]

RushYds_default_hyperpars(pos) ==
  LET p == Upper(pos) IN
  CASE p = "RB" -> [exc |-> "", log |-> <<>>,
                    ret |-> <<"0.657", "0.2", "1.68", "10.88", "1.988", "0.381",
                              "0.00154", "1.0", "1.0", "1.0", "1.0">>]
    [] p = "QB" -> [exc |-> "", log |-> <<>>,
                    ret |-> <<"111.59", "42.13", "2.82", "50.32", "0.0472", "0.940",
                              "4.2e-5", "0.805", "0.985", "0.972", "0.942">>]
    [] p = "WR" -> [exc |-> "", log |-> <<>>,
                    ret |-> <<"116.2", "41.84", "2.45", "46.42", "0.348", "0.332",
                              "0.00092", "1.0", "1.0", "1.0", "1.0">>]
    [] p = "TE" -> [exc |-> "", ret |-> None,
                    log |-> <<"TEs do not run enough to try to predict their rushes",
                              "no default hyperparameters are implemented for TE">>]
    [] OTHER -> [exc |-> "", ret |-> None,
                 log |-> <<"no default hyperparameters are implemented for " \o p>>]

RushTd_default_hyperpars(pos) ==
  LET p == Upper(pos) IN
  CASE p = "RB" -> [exc |-> "", log |-> <<>>,
                    ret |-> <<"20.90", "684.65", "1.0", "0.569", "1.0">>]
    [] p = "QB" -> [exc |-> "", log |-> <<>>,
                    ret |-> <<"12.95", "330.25", "1.0", "1.0", "0.991">>]
    [] p = "WR" -> [exc |-> "", log |-> <<>>,
                    ret |-> <<"1.14", "60.63", "0.413", "0.997", "0.989">>]
    [] p = "TE" -> [exc |-> "", ret |-> None,
                    log |-> <<"TEs do not rush enough",
                              "rushing TD positional defaults not implemented for TE">>]
    [] OTHER -> [exc |-> "", ret |-> None,
                 log |-> <<"rushing TD positional defaults not implemented for " \o p>>]

DefaultHyperpars(model, pos) ==
  /\ calc.fn = "idle"
  /\ calc' = [fn |-> "default_hyperpars", model |-> model, pos |-> pos,
              result |-> CASE model = "rush_att" -> RushAtt_default_hyperpars(pos)
                           [] model = "rush_yds" -> RushYds_default_hyperpars(pos)
                           [] model = "rush_td" -> RushTd_default_hyperpars(pos)]
  /\ UNCHANGED ShellVars

\* ------------------------------------------------- library specification
InitLib == InitLeague(ShellLeagues)

NextLib ==
  \/ \E rs \in Rulesets : \E df \in StatRecords : Score(rs, df)
  \/ \E metric \in Metrics, data \in SeqsUpTo(Observations, MaxData), n \in Trials,
        prior \in Priors, lr \in LearnRates :
       BetaBinomial(metric, data, n, prior, lr)
  \/ \E vals \in SeqsUpTo({2, 3, 5}, MaxData), r0 \in {1, 4}, b0 \in {1, 4},
        lr \in LearnRates :
       \/ GetRps([shape |-> 1, vals |-> vals], r0, [num |-> 1, den |-> 1 + b0], lr)
       \/ GetRps([shape |-> 2, num |-> vals, den |-> [i \in DOMAIN vals |-> 10]],
                 r0, [num |-> 1, den |-> 1 + b0], lr)
  \/ \E data \in SeqsUpTo(Observations, MaxData), mu \in {0, 3}, var \in {0, 2} :
       GaussKld(data, mu, var)
  \/ \E model \in {"rush_att", "rush_yds", "rush_td"},
        pos \in {"rb", "Rb", "RB", "qb", "qB", "QB", "wr", "Wr", "WR",
                 "te", "TE", "k", "K", "dst", "DST"} :
       DefaultHyperpars(model, pos)

SpecLib == InitLib /\ [][NextLib]_vars

\* ===================================================== value pipeline
\* main() from the table of projections to the table handed to the shell
\* (draft_app.py lines 1502-1660).  The table df is a sequence of rows in
\* label order.  Floats are exact fractions [n, d] with d > 0 in lowest
\* terms.

\* the greatest common divisor of |a| and b, for b > 0
RECURSIVE Gcd(_, _)
Gcd(a, b) == IF b = 0 THEN a ELSE Gcd(b, a % b)
Q(n, d) == [n |-> n \div Gcd(n, d), d |-> d \div Gcd(n, d)]
QAdd(a, b) ==
  LET L == (a.d \div Gcd(a.d, b.d)) * b.d
  IN Q(a.n * (L \div a.d) + b.n * (L \div b.d), L)
QSub(a, b) == QAdd(a, [n |-> 0 - b.n, d |-> b.d])
QMul(a, b) ==
  LET g1 == Gcd(a.n, b.d)
      g2 == Gcd(b.n, a.d)
  IN Q((a.n \div g1) * (b.n \div g2), (a.d \div g2) * (b.d \div g1))
\* a / b for b # 0
QDiv(a, b) ==
  QMul(a, IF b.n > 0 THEN [n |-> b.d, d |-> b.n] ELSE [n |-> 0 - b.d, d |-> 0 - b.n])
QLe(a, b) ==
  LET L == (a.d \div Gcd(a.d, b.d)) * b.d
  IN a.n * (L \div a.d) <= b.n * (L \div b.d)
QMin(S) == CHOOSE x \in S : \A y \in S : QLe(x, y)

bye_factor == Q(16 - 1, 16)
pos_injury_factor ==
  [QB |-> Q(94, 100), RB |-> Q(85, 100), WR |-> Q(89, 100), TE |-> Q(89, 100),
   DST |-> Q(1, 1), K |-> Q(1, 1)]

\* df.sort_values(col, ascending=False) restricted to the labels in S: the
\* labels by descending key.  Rows with equal keys are returned in label
\* order; Main explores only tables the pipeline sorts without equal keys.
RECURSIVE SortDesc(_, _)
SortDesc(S, keys) ==
  IF S = {} THEN <<>>
  ELSE CHOOSE sorted \in
         { <<top>> \o rest
           : <<top, rest>> \in
               { <<i, SortDesc(S \ {i}, keys)>>
                 : i \in {i \in S : \A j \in S :
                            QLe(keys[j], keys[i]) /\ (keys[j] = keys[i] => i <= j)} } }
         : TRUE

\* a table built row by row, as the sequence of its rows
Table(rows) == SubSeq(rows, 1, Len(rows))
Col(df, col) == Table([i \in DOMAIN df |-> df[i][col]])
AtPos(df, pos) == {i \in DOMAIN df : df[i].pos = pos}
Tiered(df) == {i \in DOMAIN df : df[i].tier # ""}

\* the loop over gamesdf.iterrows(): st.needed is games_needed, st.base is
\* ppg_baseline (a dict that gains a key when a baseline is found), st.low
\* the least value games_needed['FLEX'] has had
RECURSIVE BaselineLoop(_, _, _, _)
BaselineLoop(rows, df, ppg, st) ==
  IF rows = <<>> THEN st
  ELSE
    LET pos == df[Head(rows)].pos
        games == df[Head(rows)].g
        gneeded == st.needed[pos]
        fneeded == st.needed["FLEX"]
        nxt ==
          IF gneeded > games
            THEN [st EXCEPT !.needed[pos] = @ - games]
          ELSE IF 0 < gneeded /\ gneeded <= games
            THEN [needed |-> [k \in DOMAIN st.needed |->
                               IF k = pos THEN 0
                               ELSE IF k = "FLEX" /\ pos \in flex_pos
                                 THEN st.needed[k] - (games - gneeded)
                               ELSE st.needed[k]],
                  base |-> Put(st.base, pos, ppg[Head(rows)])]
          ELSE IF pos \in flex_pos
            THEN IF fneeded > games
                   THEN [st EXCEPT !.needed["FLEX"] = @ - games]
                 ELSE IF 0 < fneeded /\ fneeded <= games
                   THEN [needed |-> [st.needed EXCEPT !["FLEX"] = 0],
                         base |-> Put(st.base, "FLEX", ppg[Head(rows)])]
                 ELSE st
          ELSE st
    IN CHOOSE pass \in {BaselineLoop(Tail(rows), df, ppg, st2)
                         : st2 \in {[needed |-> nxt.needed, base |-> nxt.base,
                                     low |-> Min({st.low, nxt.needed["FLEX"]})]}} : TRUE

\* lines 1502-1533: the pass over the rows by descending points per game;
\* the base of its result is ppg_baseline
PpgBaseline(df, league) ==
  LET ppg == [i \in DOMAIN df |-> QDiv(Q(df[i].exp_proj, 1), Q(df[i].g, 1))]
  IN BaselineLoop(SortDesc(DOMAIN df, ppg), df, ppg,
                  [needed |-> [k \in Range(main_positions) \cup {"FLEX"} |->
                                16 * league.n_teams * league.roster[k]],
                   base |-> EmptyDict,
                   low |-> 16 * league.n_teams * league.roster["FLEX"]])

\* lines 1542-1544: worst_starter_pg of a position; the dict lookups raise
\* KeyError when the loop never reached the baseline of pos or of FLEX
BaselineMissing(base, pos) ==
  \/ pos \notin DOMAIN base
  \/ pos \in flex_pos /\ "FLEX" \notin DOMAIN base
WorstStarterPg(base, pos) ==
  IF pos \in flex_pos THEN QMin({base[pos], base["FLEX"]}) ELSE base[pos]

\* lines 1539-1548: vols = gs * (exp_proj / (gs + 1) - worst_starter_pg)
SetVols(df, base) ==
  Table([i \in DOMAIN df |->
    [df[i] EXCEPT !.vols =
      QMul(Q(df[i].g, 1),
           QSub(QDiv(Q(df[i].exp_proj, 1), Q(df[i].g + 1, 1)),
                WorstStarterPg(base, df[i].pos)))]])

\* the 0-based place of every label of a sorted list of labels
RankIn(sorted) ==
  [i \in Range(sorted) |-> (CHOOSE r \in DOMAIN sorted : sorted[r] = i) - 1]

\* lines 1551-1557: the n_teams best of a position are <pos>1, the next
\* n_teams <pos>2, ... up to the position's starter count
TierStarters(df, league) ==
  LET vols == Col(df, "vols")
      rank == [pos \in Range(main_positions) |-> RankIn(SortDesc(AtPos(df, pos), vols))]
  IN Table([i \in DOMAIN df |->
       [df[i] EXCEPT !.tier =
         IF rank[df[i].pos][i] < league.n_teams * league.roster[df[i].pos]
           THEN df[i].pos \o TokOf(rank[df[i].pos][i] \div league.n_teams + 1)
           ELSE ""]])

\* lines 1559-1564: FLEX1, FLEX2, ... among the flex players without a tier
TierFlex(df, league) ==
  LET availflex == {i \in DOMAIN df : df[i].pos \in flex_pos /\ df[i].tier = ""}
      rank == RankIn(SortDesc(availflex, Col(df, "vols")))
  IN Table([i \in DOMAIN df |->
       IF i \in availflex /\ rank[i] < league.n_teams * league.roster["FLEX"]
         THEN [df[i] EXCEPT !.tier = "FLEX" \o TokOf(rank[i] \div league.n_teams + 1)]
         ELSE df[i]])

\* variant: the minimum is taken over every player of the position
WorstStarterSeason_AllPlayers(df, pos) ==
  LET vmin(S) == QMin({df[i].vols : i \in S})
  IN IF pos \in flex_pos
       THEN QMin({vmin(AtPos(df, pos)),
                  vmin({i \in DOMAIN df : df[i].pos \in flex_pos})})
       ELSE vmin(AtPos(df, pos))
\* lines 1569-1572: worst_starter_season of a position, as the table is when
\* the loop reaches the position
WorstStarterSeason(df, pos) ==
  LET vmin(S) == QMin({df[i].vols : i \in S})
  IN IF pos \in flex_pos
       THEN QMin({vmin(AtPos(df, pos) \cap Tiered(df)),
                  vmin({i \in Tiered(df) : df[i].pos \in flex_pos})})
       ELSE vmin(AtPos(df, pos) \cap Tiered(df))

\* lines 1568-1573: the positions are re-based one after the other, in place
RECURSIVE Rebaseline(_, _)
Rebaseline(poss, df) ==
  IF poss = <<>> THEN df
  ELSE CHOOSE rebased \in
         { Rebaseline(Tail(poss),
             Table([i \in DOMAIN df |->
               IF df[i].pos = Head(poss)
                 THEN [df[i] EXCEPT !.vols = QSub(@, worst)]
                 ELSE df[i]]))
           : worst \in {WorstStarterSeason(df, Head(poss))} }
         : TRUE

RankBenchmark_ByeForAll(df, pos) ==
  LET Ceil(q) == 0 - ((0 - q.n) \div q.d)
      prob_play == QMul(bye_factor, pos_injury_factor[pos])
  IN Ceil(QDiv(Q(Cardinality(AtPos(df, pos) \cap Tiered(df)), 1), prob_play))

\* lines 1585-1590: rank_benchmark[pos] = int(ceil(tiered at pos / prob_play))
RankBenchmark(df, pos) ==
  LET Ceil(q) == 0 - ((0 - q.n) \div q.d)
      prob_play == IF pos \in {"K", "DST"} THEN Q(1, 1)
                   ELSE QMul(bye_factor, pos_injury_factor[pos])
  IN Ceil(QDiv(Q(Cardinality(AtPos(df, pos) \cap Tiered(df)), 1), prob_play))

\* posdf.head(k)['vols'].min() for k >= 1
HeadMin(df, sorted, k) ==
  QMin({df[sorted[r]].vols : r \in 1..Min({k, Len(sorted)})})

\* lines 1593-1636, the columns one pass of the loop gives the rows of its
\* position; bench is total_bench_positions
ValueRows(df, bench) ==
  LET total_start == Cardinality(Tiered(df))
      sum_rank == RankBenchmark(df, "QB") + RankBenchmark(df, "RB")
                  + RankBenchmark(df, "WR") + RankBenchmark(df, "TE")
                  + RankBenchmark(df, "K") + RankBenchmark(df, "DST")
      posdf == [pos \in Range(main_positions) |->
                 SortDesc(AtPos(df, pos), Col(df, "vols"))]
      required == [pos \in Range(main_positions) |->
                    Cardinality(AtPos(df, pos) \cap Tiered(df))]
      bench_rank == [pos \in Range(main_positions) |->
                      required[pos]
                      + ((RankBenchmark(df, pos) - required[pos]) * bench)
                          \div (sum_rank - total_start)]
      pos_benchmark == [pos \in Range(main_positions) |->
                         HeadMin(df, posdf[pos], RankBenchmark(df, pos))]
      worst_draftable == [pos \in Range(main_positions) |->
                           HeadMin(df, posdf[pos], bench_rank[pos])]
      idx == [pos \in Range(main_positions) |-> RankIn(posdf[pos])]
      multiplier(pos, x) ==
        IF pos \in {"K", "DST"} THEN Q(0, 1)
        ELSE Q(required[pos] * required[pos], required[pos] * required[pos] + x * x)
      QMax0(q) == IF q.n < 0 THEN Q(0, 1) ELSE q
      Row(r, pos, x) ==
        [r EXCEPT
          !.vbsd = QMul(QSub(r.vols, pos_benchmark[pos]), pos_injury_factor[pos]),
          !.volb = QSub(r.vols, worst_draftable[pos]),
          !.rank = pos \o TokOf(x + 1),
          !.auction = QMul(multiplier(pos, x),
                           QMax0(QMul(QSub(r.vols, worst_draftable[pos]),
                                      pos_injury_factor[pos])))]
  IN Table([i \in DOMAIN df |-> Row(df[i], df[i].pos, idx[df[i].pos][i])])

\* df.head(n).index for the sequence of labels
PyHead(labels, n) ==
  IF n >= 0 THEN SubSeq(labels, 1, Min({n, Len(labels)}))
  ELSE SubSeq(labels, 1, Max({0, Len(labels) + n}))

\* lines 1639-1643: backups are the untiered rows with volb >= 0, then the
\* first untiered rows until every starting and bench slot has a row
TierBackups(df, total_start, bench) ==
  LET bu == Table([i \in DOMAIN df |->
              IF df[i].tier = "" /\ df[i].volb.n >= 0
                THEN [df[i] EXCEPT !.tier = "BU"] ELSE df[i]])
      n_more_backups == total_start + bench - Cardinality(Tiered(bu))
      untiered == SelectSeq([i \in DOMAIN bu |-> i], LAMBDA i : bu[i].tier = "")
      add_bu_ix == Range(PyHead(untiered, n_more_backups))
  IN Table([i \in DOMAIN bu |->
             IF i \in add_bu_ix THEN [bu[i] EXCEPT !.tier = "BU"] ELSE bu[i]])

RECURSIVE QSum(_)
QSum(seq) ==
  IF seq = <<>> THEN Q(0, 1)
  ELSE CHOOSE s \in {QAdd(Head(seq), rest) : rest \in {QSum(Tail(seq))}} : TRUE

\* variant: the league's whole money is shared out
AvailCap_LeagueCap(league) == league.n_teams * 200
\* lines 1645-1649: avail_cap = league_cap - minbid * (all roster slots)
AvailCap(league) ==
  league.n_teams * 200
  - 1 * league.n_teams * (league.roster.QB + league.roster.RB + league.roster.WR
                          + league.roster.TE + league.roster.FLEX + league.roster.DST
                          + league.roster.K + league.roster.BENCH)

\* lines 1645-1660: the auction column is scaled to the league's money and
\* every tiered row gets the minimum bid; rows without a tier become FA.
\* A zero total makes the factor infinite and every cell NaN (0 * inf):
\* auction_nan, the cells are then left as they were.
ScaleAuction(df, league) ==
  LET total_auction_pts == QSum(Col(df, "auction"))
      Final(scaled) ==
        [df |-> Table([i \in DOMAIN scaled |->
                  [scaled[i] EXCEPT !.tier = IF @ = "" THEN "FA" ELSE @]]),
         auction_nan |-> total_auction_pts.n = 0,
         logged |-> IF total_auction_pts.n = 0 THEN <<"auction totals do not match league cap!">>
                    ELSE IF QLe(Q(1, 2), QSub(QSum(Col(scaled, "auction")), Q(league.n_teams * 200, 1)))
                            \/ QLe(Q(1, 2), QSub(Q(league.n_teams * 200, 1), QSum(Col(scaled, "auction"))))
                      THEN <<"auction totals do not match league cap!">>
                    ELSE <<>>]
  IN Final(Table([i \in DOMAIN df |->
             IF total_auction_pts.n = 0 THEN df[i]
             ELSE [df[i] EXCEPT !.auction =
                    QAdd(QMul(@, QDiv(Q(AvailCap(league), 1), total_auction_pts)),
                         Q(IF df[i].tier # "" THEN 1 ELSE 0, 1))]]))

\* lines 1502-1660 on a table with the columns pos, exp_proj, g: the set of
\* the one outcome, each step working on the table the step before left.
\* determined: the sorts of the run had no equal keys to order (no two rows
\* with the same points per game, no two rows of a position or of the flex
\* pool with the same vols)
ValuePipeline(df, league) ==
  LET bench == league.n_teams * league.roster["BENCH"]
      PpgDistinct(d) ==
        \A i, j \in DOMAIN d :
          i # j => d[i].exp_proj * d[j].g # d[j].exp_proj * d[i].g
      VolsDistinct(d) ==
        \A i, j \in DOMAIN d :
          (i # j /\ (d[i].pos = d[j].pos \/ {d[i].pos, d[j].pos} \subseteq flex_pos))
            => d[i].vols # d[j].vols
      blank == Table([i \in DOMAIN df |->
                 [pos |-> df[i].pos, exp_proj |-> df[i].exp_proj, g |-> df[i].g,
                  vols |-> Q(0, 1), tier |-> "", vbsd |-> Q(0, 1),
                  volb |-> Q(0, 1), rank |-> "", auction |-> Q(0, 1)]])
      KeyErr == [exc |-> "KeyError", df |-> <<>>, auction_nan |-> FALSE,
                 logged |-> <<>>, rank_benchmark |-> EmptyDict,
                 flex_low |-> PpgBaseline(df, league).low,
                 determined |-> PpgDistinct(df)]
      Done(r, tiers, det) ==
        [exc |-> "", df |-> r.df, auction_nan |-> r.auction_nan,
         logged |-> r.logged,
         rank_benchmark |-> [pos \in Range(main_positions) |->
                              RankBenchmark(tiers, pos)],
         flex_low |-> PpgBaseline(df, league).low,
         determined |-> det]
  IN UNION {
       IF \E k \in DOMAIN main_positions : BaselineMissing(base, main_positions[k])
         THEN {KeyErr}
         ELSE UNION { UNION {
                { Done(r, tiers, PpgDistinct(df) /\ VolsDistinct(vols))
                  : r \in { ScaleAuction(bu, league)
                            : bu \in { TierBackups(vr, Cardinality(Tiered(tiers)), bench)
                                       : vr \in {ValueRows(tiers, bench)} } } }
                : tiers \in { Rebaseline(main_positions, fl)
                              : fl \in { TierFlex(st, league)
                                         : st \in {TierStarters(vols, league)} } } }
              : vols \in {SetVols(blank, base)} }
       : base \in {PpgBaseline(df, league).base} }

\* one run of main(): the result is what the shell would be started with
Main(df, league) ==
  /\ calc.fn = "idle"
  /\ \E r \in ValuePipeline(df, league) :
       /\ r.determined
       /\ calc' = [fn |-> "main", df |-> df, league |-> league, result |-> r]
  /\ UNCHANGED ShellVars

\* projections: exp_proj in points, g = 15 games unless suspended; player
\* susp (0 for nobody) is suspended for 10 games
NextPipe ==
  \E susp \in 0..17, teams \in 1..2, rb \in 1..2, flex \in 1..2, bench \in 0..MaxBench :
    LET P(i, pos, k) == [pos |-> pos, exp_proj |-> 240 * k,
                         g |-> IF i = susp THEN 5 ELSE 15]
    IN Main(<<P(1, "QB", 20), P(2, "RB", 15), P(3, "WR", 13), P(4, "TE", 10),
              P(5, "K", 6), P(6, "DST", 3), P(7, "QB", 18), P(8, "RB", 14),
              P(9, "WR", 11), P(10, "TE", 7), P(11, "K", 4), P(12, "DST", 2),
              P(13, "QB", 16), P(14, "RB", 12), P(15, "WR", 8), P(16, "TE", 5),
              P(17, "RB", 9)>>,
            [n_teams |-> teams, roster |-> Roster(1, rb, 1, 1, flex, 1, 1, bench)])

SpecPipe == InitLib /\ [][NextPipe]_vars

\* ================================================ recommendations, vona
\* acceptable_positions as the list _pick_rec builds it: every branch lists
\* QB, then the flex positions, then K and DST
AcceptableList(manager, p, cols) ==
  SelectSeq(main_positions, LAMBDA pos : pos \in AcceptablePositions(manager, p, cols))

\* ap[ap.pos == pos]['exp_proj'].max(): NaN when no row is left at pos
TopProj(a, pos) ==
  IF Len(PosRows(a, pos)) = 0 THEN NaN
  ELSE Max({PD(r.id).exp_proj : r \in Rows(PosRows(a, pos))})

\* _step_vona: the managers of managers_til_next pick in turn, by strat, from
\* copies of the tables.  The result is the set of outcomes, one for each
\* order a sort with ties may produce: err the exception raised, ap the
\* table that is left.
RECURSIVE StepVona(_, _, _, _, _)
StepVona(a, p, cols, managers_til_next, strat) ==
  IF managers_til_next = <<>> THEN {[err |-> "", ap |-> a]}
  ELSE
  UNION {
    IF rec.err # "" THEN {[err |-> rec.err, ap |-> a]}
    ELSE UNION {
           StepVona(Drop(a, pickidx),
                    Append(p, [key |-> pickidx, id |-> RowAt(a, pickidx).id,
                               manager |-> Head(managers_til_next), pick |-> NaN]),
                    cols \cup {"manager"}, Tail(managers_til_next), strat)
         : pickidx \in rec.cands}
    : rec \in {PickRec(Head(managers_til_next), strat, a, p, cols, {})} }

\* no position: the None that _get_max_vona_in returns
NonePos == "None"

\* the loop of _get_max_vona_in over positions, na_ap being what _step_vona
\* left; a comparison with NaN is false
RECURSIVE VonaLoop(_, _, _, _, _, _)
VonaLoop(positions, a, na_ap, disabled, max_vona, max_vona_pos) ==
  IF positions = <<>> THEN max_vona_pos
  ELSE
  LET pos == Head(positions)
      topval == TopProj(a, pos)
      naval == TopProj(na_ap, pos)
      better == /\ topval # NaN
                /\ naval # NaN
                /\ topval - naval > max_vona
                /\ pos \notin disabled
  IN IF better
       THEN VonaLoop(Tail(positions), a, na_ap, disabled, topval - naval, pos)
       ELSE VonaLoop(Tail(positions), a, na_ap, disabled, max_vona, max_vona_pos)

\* variant: the managers are appended a second time without being reversed
SimulatedManagers_Repeated(managers) == managers \o managers

\* managers.extend(managers[::-1]): the managers whose picks are simulated
SimulatedManagers(managers) ==
  managers \o [i \in DOMAIN managers |-> managers[Len(managers) + 1 - i]]

\* _get_max_vona_in: the set of outcomes, err the exception raised, pos the
\* position returned
GetMaxVonaIn(s, positions, strat, disabled) ==
  IF positions = <<>> THEN {[err |-> "", pos |-> NonePos]}
  ELSE
  LET til == GetManagersTilNext(s)
      managers == SimulatedManagers(til.mans)
  IN IF til.err # "" THEN {[err |-> til.err, pos |-> NonePos]}
     ELSE IF til.none THEN {[err |-> "AttributeError", pos |-> NonePos]}
     ELSE {IF na.err # "" THEN [err |-> na.err, pos |-> NonePos]
           ELSE [err |-> "",
                 pos |-> VonaLoop(positions, s.ap, na.ap, disabled, 0 - 1000, NonePos)]
           : na \in StepVona(s.ap, s.pp, s.pp_cols, managers, strat)}

\* _pick_rec with strat='vona': the set of outcomes, err the exception raised,
\* pick the index label returned, fallback whether the warning was printed
\* and the vols strategy used
PickRecVona(s, manager, vona_strat, disabled) ==
  UNION {
    IF r.err # "" THEN {[err |-> r.err, pick |-> None, fallback |-> FALSE]}
    ELSE IF r.pos = NonePos
      THEN UNION {IF rec.err # "" THEN {[err |-> rec.err, pick |-> None, fallback |-> TRUE]}
            ELSE {[err |-> "", pick |-> k, fallback |-> TRUE] : k \in rec.cands}
            : rec \in {PickRec(manager, "vols", s.ap, s.pp, s.pp_cols, disabled)}}
    ELSE {[err |-> "", pick |-> q.key, fallback |-> FALSE]
          : q \in {x \in Rows(PosRows(s.ap, r.pos)) :
                     PD(x.id).exp_proj = TopProj(s.ap, r.pos)}}
  : r \in GetMaxVonaIn(s, AcceptableList(manager, s.pp, s.pp_cols), vona_strat,
                       disabled)}

\* --------------------------------------------------------------- do_recommend
vona_strats == <<"vols", "volb", "vbsd", "adp", "ecp">>

\* the second loop of do_recommend, from strats on; s.recs.vona holds what
\* was printed so far
RECURSIVE RecommendVona(_, _)
RecommendVona(s, strats) ==
  IF strats = <<>> THEN {s}
  ELSE UNION {
         IF r.err # "" THEN {Raise(s, r.err)}
         ELSE RecommendVona(
                [(IF r.fallback THEN Say(s, "VONA is not well-defined. will return VOLS.")
                  ELSE s)
                 EXCEPT !.recs.vona = Put(@, Head(strats),
                                          [pick |-> r.pick, fallback |-> r.fallback])],
                Tail(strats))
       : r \in PickRecVona(s, GetCurrentManager(s), Head(strats),
                           Range(s.disabled_pos))}

\* variant: the player recommended by vols is taken from the table
DoRecommend_Picking(s) ==
  LET rec == PickRec(GetCurrentManager(s), "vols", s.ap, s.pp, s.pp_cols,
                     Range(s.disabled_pos))
  IN IF rec.err # "" THEN {Raise(s, rec.err)}
     ELSE {PopFromPlayerList(s, k, None, None) : k \in rec.cands}

\* The set of states do_recommend may end in.  The allowed positions do not
\* depend on the strategy, so _pick_rec raises for the first strategy or for
\* none.  The only write to the real tables is the vorp column that
\* _pick_rec recomputes in place for the vorp strategy.
DoRecommend(s) ==
  LET manager == GetCurrentManager(s)
      rec(strat) == PickRec(manager, strat, s.ap, s.pp, s.pp_cols, Range(s.disabled_pos))
  IN IF \E strat \in known_strategies : rec(strat).err # ""
       THEN {Raise(s, "IndexError")}
     ELSE UNION {
            IF s.manager_picks # <<>>
              THEN RecommendVona([SelfUpdateVorp(s) EXCEPT !.recs.strat = picks],
                                 vona_strats)
              ELSE {[SelfUpdateVorp(s) EXCEPT !.recs.strat = picks]}
          : picks \in {f \in [known_strategies -> Keys(s.ap)] :
                         \A strat \in known_strategies : f[strat] \in rec(strat).cands}}

\* ------------------------------------------------------------ do_print_vona
\* The set of states do_print_vona may end in: it raises what
\* _get_managers_til_next or a simulated pick raises, and otherwise prints
\* one line for each strategy and position.  _step_vona works on copies
\* (ap.drop, .copy(), pd.concat); the vorp strategy rewrites the vorp column
\* of the real table for its first simulated pick.
DoPrintVona(s) ==
  IF s.manager_picks = <<>> THEN {Say(s, "command only available in snake draft mode.")}
  ELSE IF \A pos \in Range(main_positions) : n_roster_per_team[pos] = 0
    THEN {Say(s, "Assuming strategy:")}
  ELSE
  UNION {
    IF til.err # "" THEN {Raise(s, til.err)}
    ELSE UNION {
      UNION {
        {Raise(s, o.err) : o \in {x \in UNION {outs[strat] : strat \in known_strategies}
                                    : x.err # ""}}
          \cup (IF \A strat \in known_strategies : \E o \in outs[strat] : o.err = ""
                  THEN {Say(IF managers # <<>> THEN SelfUpdateVorp(s) ELSE s,
                            "Assuming strategy:")}
                  ELSE {})
        : outs \in {[strat \in known_strategies |->
                       StepVona(s.ap, s.pp, s.pp_cols, managers, strat)]} }
      : managers \in {til.mans \o [i \in DOMAIN til.mans |->
                                     til.mans[Len(til.mans) + 1 - i]]} }
    : til \in {GetManagersTilNext(s)} }

\* ------------------------------------------- do_disable_pos, do_enable_pos
RECURSIVE DoDisablePos(_, _)
DoDisablePos(s, args) ==
  IF args = <<>> THEN s
  ELSE
  LET upos == Upper(Head(args))
  IN IF upos \in Range(s.disabled_pos)
       THEN DoDisablePos(Say(s, "is already disabled."), Tail(args))
     ELSE IF upos \in {"QB", "RB", "WR", "TE", "K", "DST"}
       THEN DoDisablePos([Say(s, "Disabling in recommendations.")
                          EXCEPT !.disabled_pos = Append(@, upos)], Tail(args))
     ELSE DoDisablePos(s, Tail(args))

RECURSIVE DoEnablePos(_, _)
DoEnablePos(s, args) ==
  IF args = <<>> THEN s
  ELSE
  LET upos == Upper(Head(args))
  IN IF upos \in Range(s.disabled_pos)
       THEN DoEnablePos([Say(s, "Enabling in recommendations.")
                         EXCEPT !.disabled_pos = SelectSeq(@, LAMBDA x : x # upos)],
                        Tail(args))
       ELSE DoEnablePos(s, Tail(args))

Recommend ==
  /\ ~crashed
  /\ \E s \in DoRecommend(Precmd(Cur)) : Commit(s, "recommend")

PrintVona ==
  /\ ~crashed
  /\ \E s \in DoPrintVona(Precmd(Cur)) : Commit(s, "print_vona")

DisablePos(args) ==
  /\ ~crashed
  /\ Commit(DoDisablePos(Precmd(Cur), args), "disable_pos")

EnablePos(args) ==
  /\ ~crashed
  /\ Commit(DoEnablePos(Precmd(Cur), args), "enable_pos")

\* The shell with recommendations: a league of two teams with a QB, an RB and
\* a K slot each, so that the draft order has a manager pick twice in a row,
\* and a table with two QBs, so that a position can lose its best player to
\* another manager.
InitRec ==
  InitTable({[n_teams |-> 2, roster |-> Roster(1, 1, 0, 0, 0, 0, 1, 0)]}, <<0, 1, 2, 4>>)

NextRec ==
  \/ \E args \in {<<"0">>, <<"2">>, <<"3">>, <<"vols">>} : Pick(args)
  \/ \E argstr \in {<<"1">>, <<"1", "vols">>} : Snake(argstr)
  \/ \E args \in {<<"qb">>, <<"rb", "K">>, <<"flex">>} : DisablePos(args)
  \/ \E args \in {<<"qb">>, <<"k", "dst">>} : EnablePos(args)
  \/ Recommend
  \/ PrintVona

SpecRec == InitRec /\ [][NextRec]_vars

\* ============================================================ suspensions
MaxSusp == 2           \* most records of data/suspensions.csv

\* difflib's count of matching characters: the longest common block, the
\* one earliest in a and then in b among equals, then the same to its left
\* and to its right
RECURSIVE MatchCount(_, _)
MatchCount(a, b) ==
  LET blocks == {t \in (1..Len(a)) \X (1..Len(b)) \X (1..Len(a)) :
                   /\ t[1] + t[3] - 1 <= Len(a)
                   /\ t[2] + t[3] - 1 <= Len(b)
                   /\ SubSeq(a, t[1], t[1] + t[3] - 1) = SubSeq(b, t[2], t[2] + t[3] - 1)}
  IN IF blocks = {} THEN 0
     ELSE LET k == Max({t[3] : t \in blocks})
              i == Min({t[1] : t \in {u \in blocks : u[3] = k}})
              j == Min({t[2] : t \in {u \in blocks : u[3] = k /\ u[1] = i}})
          IN k + MatchCount(SubSeq(a, 1, i - 1), SubSeq(b, 1, j - 1))
               + MatchCount(SubSeq(a, i + k, Len(a)), SubSeq(b, j + k, Len(b)))

\* get_close_matches(word, names, cutoff=0.75)[:1]: the names whose ratio
\* 2 * matches / (len(name) + len(word)) is at least 3/4, the best of them
\* only; of two names with the same ratio the greater string comes first
CloseMatches(word, names) ==
  LET Alphabet == <<"e", "h", "i", "j", "m", "n", "o", "s", "t", "y">>
      Ord(c) == CHOOSE n \in DOMAIN Alphabet : Alphabet[n] = c
      RECURSIVE StrLess(_, _)
      StrLess(x, y) ==
        IF y = <<>> THEN FALSE
        ELSE IF x = <<>> THEN TRUE
        ELSE IF Head(x) # Head(y) THEN Ord(Head(x)) < Ord(Head(y))
        ELSE StrLess(Tail(x), Tail(y))
      M(x) == MatchCount(x, word)
      T(x) == Len(x) + Len(word)
      close == {x \in Range(names) : 8 * M(x) >= 3 * T(x)}
      Before(x, y) == \/ M(x) * T(y) > M(y) * T(x)
                      \/ M(x) * T(y) = M(y) * T(x) /\ StrLess(y, x)
  IN {x \in close : \A y \in close \ {x} : Before(x, y)}

\* lines 1469-1494: g is 15 for every row, then each record of sussdf in turn
\* takes its games from the rows it selects.  rmsuff is the column of the
\* normalised player names, posnews the position of the last news item
\* (None when news.csv gave no row), gsus = NaN an unknown suspension time
RECURSIVE Suspend(_, _, _, _)
Suspend(df, g, sussdf, posnews) ==
  IF sussdf = <<>> THEN [exc |-> "", g |-> g]
  ELSE LET psus == Head(sussdf)
           exact == {i \in DOMAIN df : df[i].rmsuff = psus.player /\ df[i].pos = psus.pos}
           fuzzy == {i \in DOMAIN df :
                       /\ df[i].pos = posnews
                       /\ df[i].rmsuff \in CloseMatches(psus.player,
                                             [i2 \in DOMAIN df |-> df[i2].rmsuff])}
           pix == IF exact = {} THEN fuzzy ELSE exact
       IN IF exact = {} /\ posnews = NonePos THEN [exc |-> "NameError", g |-> g]
          ELSE Suspend(df,
                       IF psus.gsus = NaN THEN g
                       ELSE [i \in DOMAIN g |-> IF i \in pix THEN g[i] - psus.gsus ELSE g[i]],
                       Tail(sussdf), posnews)

\* the suspension step of main() on a table of four players
Suspensions(sussdf, posnews) ==
  /\ calc.fn = "idle"
  /\ \E df \in {<<[rmsuff |-> <<"s", "m", "i", "t", "h">>, pos |-> "QB"],
                  [rmsuff |-> <<"s", "m", "y", "t", "h">>, pos |-> "RB"],
                  [rmsuff |-> <<"j", "o", "n", "e", "s">>, pos |-> "WR"],
                  [rmsuff |-> <<"s", "m", "i", "t", "h">>, pos |-> "RB"]>>} :
       calc' = [fn |-> "suspensions", df |-> df, sussdf |-> sussdf,
                posnews |-> posnews,
                result |-> Suspend(df, [i \in DOMAIN df |-> 15], sussdf, posnews)]
  /\ UNCHANGED ShellVars

NextSusp ==
  \E n \in 0..MaxSusp, posnews \in {"QB", "RB", "WR", NonePos} :
    \E sussdf \in [1..n -> [player : {<<"s", "m", "i", "t", "h">>,
                                      <<"s", "m", "y", "t", "h">>,
                                      <<"j", "o", "n", "e", "s">>,
                                      <<"j", "o", "h", "n", "s">>},
                            pos : {"QB", "RB", "WR"},
                            gsus : {4, NaN}]] :
      Suspensions(sussdf, posnews)

SpecSusp == InitLib /\ [][NextSusp]_vars

\* ------------------------------------------- automatic strategies
\* a draft of two teams with one QB and one RB slot each, started by the
\* user in either seat, with picks that name a strategy, a player or both
NextAuto ==
  \/ \E args \in {<<"0">>, <<"1">>, <<"vols">>, <<"adp", "auto">>,
                  <<"0", "auto">>, <<"smith", "auto">>} : Pick(args)
  \/ \E argstr \in {<<"1">>, <<"2", "vols">>, <<"1", "bogus", "ecp">>} : Snake(argstr)
  \/ Unpick

SpecAuto ==
  /\ InitTable({[n_teams |-> 2, roster |-> Roster(1, 1, 0, 0, 0, 0, 0, 0)]},
               <<0, 1, 2, 4, 5>>)
  /\ [][NextAuto]_vars

\* ------------------------------------------------------------- do_save
\* save_player_list writes both tables under the label; the shell's own
\* state stays as precmd left it
Save(outname) ==
  /\ ~crashed
  /\ \E s \in {Say(Precmd(Cur), "Saving with label")} :
       /\ ap' = s.ap
       /\ out' = s.out
       /\ files' = Put(files, outname, CsvOf(s))
  /\ crashed' = FALSE
  /\ last' = "save"
  /\ UNCHANGED <<pp, pp_cols, draft_mode, i_manager_turn, manager_picks,
                 user_manager, manager_names, manager_auto_strats, disabled_pos,
                 recs, n_teams, n_roster_per_team, bench_is_same_object, calc>>

\* picks and unpicks by hand, saved and loaded under one label
NextSave ==
  \/ \E args \in {<<"0">>, <<"1">>} : Pick(args)
  \/ Unpick
  \/ Save("league")
  \/ Load("league")

SpecSave ==
  /\ InitTable({[n_teams |-> 2, roster |-> Roster(1, 1, 0, 0, 0, 0, 0, 0)]},
               <<0, 1, 4>>)
  /\ [][NextSave]_vars

\* ---------------------------------------------------- a draft to its end
\* Two teams draft from sixteen players, three at each of QB, K and DST and
\* seven at the flex positions.  The other manager picks by a strategy, the
\* user by the number of an available player, from the start of the draft
\* to its end.
NextDraft ==
  \/ /\ ~draft_mode
     /\ \E argstr \in {<<"1", "vols">>, <<"2", "adp">>} : Snake(argstr)
  \/ /\ draft_mode
     /\ i_manager_turn < Len(manager_picks)
     /\ \E i \in (0..7) \cap Keys(ap) : Pick(<<TokOf(i)>>)

\* Leagues of two teams with a K, a DST and one or two FLEX slots, one of
\* them with a QB and one with a bench slot, and sixteen players.  The user
\* starts a draft and, as long as a pick is possible, goes on picking: weak
\* fairness of both commands.  For the picks it is written with its ENABLED
\* spelled out (a pick is possible while the draft runs and a number the
\* user may enter is available); every step of a started draft is a pick.
SpecDraft ==
  /\ InitTable({ [n_teams |-> 2, roster |-> Roster(0, 0, 0, 0, 1, 1, 1, 0)],
                 [n_teams |-> 2, roster |-> Roster(1, 0, 0, 0, 1, 1, 1, 0)],
                 [n_teams |-> 2, roster |-> Roster(0, 0, 0, 0, 1, 1, 1, 1)],
                 [n_teams |-> 2, roster |-> Roster(0, 0, 0, 0, 2, 1, 1, 0)] },
               <<0, 1, 2, 3, 13, 14, 9, 10, 4, 5, 6, 7, 8, 11, 12, 15>>)
  /\ [][NextDraft]_vars
  /\ WF_vars(~draft_mode
              /\ \E argstr \in {<<"1", "vols">>, <<"2", "adp">>} : Snake(argstr))
  /\ \/ []<>~(/\ draft_mode
               /\ i_manager_turn < Len(manager_picks)
               /\ (0..7) \cap Keys(ap) # {})
     \/ []<><<draft_mode>>_vars

\* ================================================================== claims
\* the fields of the shell a command may change, as precmd leaves them
Fresh == Precmd(Cur)

\* C1: without load, after any sequence of pick, unpick and automatic picks
\* every player of the initial table is in exactly one of the two tables:
\* the row keys of ap and pp are disjoint, together they are the initial
\* keys, and no key labels two rows.
C1_ExactlyOneTable ==
  /\ Keys(ap) \cap Keys(pp) = {}
  /\ Keys(ap) \cup Keys(pp) = 0..(NPlayers - 1)
  /\ Len(ap) + Len(pp) = NPlayers
  /\ \A r \in Rows(ap) \cup Rows(pp) : r.id = r.key

C1_Witness ==
  /\ last = "unpick"
  /\ draft_mode
  /\ Len(pp) >= 2
  /\ \E r \in Rows(pp) : r.manager \in DOMAIN manager_auto_strats

\* C2 as stated: in every state that accepts commands, pick of an available
\* index i followed at once by unpick leaves the rows of ap and pp and
\* i_manager_turn as they were before the pick.
C2_PickUnpickAlways ==
  ~crashed =>
    \A i \in Keys(ap) :
      \A s2 \in DoPick(Fresh, <<TokOf(i)>>) :
        s2.exc = "" =>
          LET s3 == DoUnpick(Precmd(s2))
          IN /\ Rows(s3.ap) = Rows(Fresh.ap)
             /\ s3.pp = pp
             /\ s3.i_manager_turn = i_manager_turn

\* C2, amended: when pick of an available index i leaves the picked table
\* exactly one row longer (no automatic pick followed that is still in the
\* table), an immediate unpick gives back the rows of ap with the same column
\* values, pp as it was (its columns too, when it had rows) and the
\* i_manager_turn of before the pick.
C2_PickUnpickInverse ==
  ~crashed =>
    \A i \in Keys(ap) :
      \A s2 \in DoPick(Fresh, <<TokOf(i)>>) :
        (s2.exc = "" /\ Len(s2.pp) = Len(pp) + 1) =>
          LET s3 == DoUnpick(Precmd(s2))
          IN /\ Rows(s3.ap) = Rows(Fresh.ap)
             /\ s3.pp = pp
             /\ (Len(pp) > 0 => s3.pp_cols = pp_cols)
             /\ s3.i_manager_turn = i_manager_turn
             /\ s3.draft_mode = draft_mode
             /\ s3.exc = ""

C2_Witness ==
  /\ ~crashed
  /\ draft_mode
  /\ Len(pp) > 0
  /\ \E i \in Keys(ap) :
       \E s2 \in DoPick(Fresh, <<TokOf(i)>>) :
         /\ s2.exc = ""
         /\ Len(s2.pp) = Len(pp) + 1
         /\ s2.pp[Len(s2.pp)].key = i
         /\ s2.i_manager_turn = i_manager_turn + 1

\* C3: after a successful snake command manager_picks has n_teams times the
\* sum of all roster slots entries; entry r*n_teams+j (0-based) is j+1 in an
\* even round r and n_teams-j in an odd one; for 4 teams and 2 rounds it is
\* 1,2,3,4,4,3,2,1.
C3_SnakeOrder ==
  draft_mode =>
    LET n_rounds == n_roster_per_team.QB + n_roster_per_team.RB
                    + n_roster_per_team.WR + n_roster_per_team.TE
                    + n_roster_per_team.FLEX + n_roster_per_team.DST
                    + n_roster_per_team.K + n_roster_per_team.BENCH
    IN /\ Len(manager_picks) = n_teams * n_rounds
       /\ \A r \in 0..(n_rounds - 1) : \A j \in 0..(n_teams - 1) :
            manager_picks[r * n_teams + j + 1] =
              IF r % 2 = 0 THEN j + 1 ELSE n_teams - j
       /\ (n_teams = 4 /\ n_rounds = 2
             => manager_picks = <<1, 2, 3, 4, 4, 3, 2, 1>>)

C3_Witness ==
  /\ last = "snake"
  /\ draft_mode
  /\ n_teams = 4
  /\ n_roster_per_team.BENCH = 1
  /\ Len(manager_picks) = 8
  /\ i_manager_turn >= 0

\* the pick commands C4 is about: two managers, the turn is the user's, the
\* other manager drafts automatically, the user does not, and the command
\* returns to the prompt with more picked players than before
C4_UserPick ==
  /\ last' = "pick"
  /\ ~crashed'
  /\ draft_mode
  /\ n_teams = 2
  /\ GetCurrentManager(Cur) = user_manager
  /\ (3 - user_manager) \in DOMAIN manager_auto_strats
  /\ user_manager \notin DOMAIN manager_auto_strats'
  /\ Len(pp') > Len(pp)

\* C4 as stated: such a pick leaves i_manager_turn advanced by 2, or by 1
\* with the completion message.
C4_AdvancedByTwo ==
  [][C4_UserPick =>
       \/ i_manager_turn' = i_manager_turn + 2
       \/ /\ i_manager_turn' = i_manager_turn + 1
          /\ "Draft is over!" \in out']_vars

\* C4, amended: such a pick advances i_manager_turn by k in 1..3 and leaves
\* exactly k new rows in pp: the user's, then k-1 automatic picks of the other
\* manager with consecutive pick numbers (the snake order gives that manager
\* up to two turns in a row).  Afterwards the turn is the user's again, or
\* the draft is over and confirmed, or an automatic pick found no player, or
\* the completion prompt was declined and the last pick undone.
C4_AutoChain ==
  [][C4_UserPick =>
       LET k == i_manager_turn' - i_manager_turn
           n == Len(pp)
       IN /\ k \in 1..3
          /\ Len(pp') = n + k
          /\ SubSeq(pp', 1, n) = pp
          /\ pp'[n + 1].manager = user_manager
          /\ pp'[n + 1].pick = i_manager_turn + 1
          /\ \A j \in 2..k : /\ pp'[n + j].manager = 3 - user_manager
                            /\ pp'[n + j].pick = i_manager_turn + j
          /\ \/ /\ i_manager_turn' = Len(manager_picks)
                /\ "You're done!" \in out'
             \/ /\ i_manager_turn' < Len(manager_picks)
                /\ manager_picks[i_manager_turn' + 1] = user_manager
             \/ "could not pick player from list." \in out'
             \/ "Undoing last pick" \in out']_vars

C4_Witness ==
  /\ last = "pick"
  /\ ~crashed
  /\ draft_mode
  /\ n_teams = 2
  /\ (3 - user_manager) \in DOMAIN manager_auto_strats
  /\ user_manager \notin DOMAIN manager_auto_strats
  /\ i_manager_turn = 3
  /\ Len(pp) = 3
  /\ pp[1].manager = user_manager
  /\ pp[2].manager = 3 - user_manager
  /\ pp[3].manager = 3 - user_manager
  /\ GetCurrentManager(Cur) = user_manager

\* C5: with K and DST disabled, _pick_rec with the vols strategy returns no
\* player whose position is K or DST, for every manager and every roster,
\* also when the only positions the manager still needs are K and DST.
C5_NoDisabledRecommended ==
  \A manager \in 1..n_teams :
    LET rec == PickRec(manager, "vols", Fresh.ap, pp, pp_cols, Range(default_disabled_pos))
    IN \A k \in rec.cands : PD(RowAt(ap, k).id).pos \notin {"K", "DST"}

C5_Witness ==
  /\ ~crashed
  /\ draft_mode
  /\ \E manager \in 1..n_teams :
       /\ AcceptablePositions(manager, pp, pp_cols) = {"K", "DST"}
       /\ \E r \in Rows(ap) : PD(r.id).pos = "K"
       /\ \E r \in Rows(ap) : PD(r.id).pos = "DST"
       /\ PickRec(manager, "vols", Fresh.ap, pp, pp_cols,
                  Range(default_disabled_pos)).cands # {}

\* C6: a snake command issued in draft mode, or while players are picked, is
\* refused: the handler changes none of draft_mode, manager_picks,
\* i_manager_turn, user_manager, manager_auto_strats, ap and pp (ap is as
\* precmd refreshed it before the handler ran).
C6_SnakeRefused ==
  [][(last' = "snake" /\ (draft_mode \/ Len(pp) > 0)) =>
       /\ draft_mode' = draft_mode
       /\ manager_picks' = manager_picks
       /\ i_manager_turn' = i_manager_turn
       /\ user_manager' = user_manager
       /\ manager_auto_strats' = manager_auto_strats
       /\ ap' = Fresh.ap
       /\ pp' = pp
       /\ ~crashed']_vars

C6_Witness ==
  /\ last = "snake"
  /\ "There are already picked players." \in out
  /\ ~draft_mode
  /\ Len(pp) > 0

\* C7: no command ends the session: after every command the shell is back at
\* its prompt.
C7_SessionSurvives == ~crashed

\* the messages of the user errors C8 lists
UserErrors ==
  {"Could not cast argument to draft.",
   "Could not figure out a valid manager to assign name to.",
   "The roster command is only available in draft mode.",
   "this command is only available in draft mode."}

\* C8: a command that reports a user error changes none of the player
\* tables, draft_mode, manager_picks, i_manager_turn, user_manager,
\* manager_names and manager_auto_strats (ap is as precmd refreshed it).
C8_UserErrorNoOp ==
  [][(\/ out' \cap UserErrors # {}
      \/ last' = "pick" /\ out' = {"could not pick player from list."})
     => /\ ap' = Fresh.ap
        /\ pp' = pp
        /\ draft_mode' = draft_mode
        /\ manager_picks' = manager_picks
        /\ i_manager_turn' = i_manager_turn
        /\ user_manager' = user_manager
        /\ manager_names' = manager_names
        /\ manager_auto_strats' = manager_auto_strats]_vars

\* C9: in draft mode i_manager_turn never exceeds len(manager_picks) and the
\* picked table never has more rows than n_teams times the roster slots.
C9_TurnWithinSequence ==
  draft_mode =>
    /\ i_manager_turn <= Len(manager_picks)
    /\ Len(pp) <= n_teams * TotalRosterSpots

\* C10: unpick with a non-empty picked table moves exactly the most recently
\* picked player (the last row of pp, in draft mode the one with the highest
\* pick number) back to ap and leaves every other row alone; in draft mode
\* i_manager_turn decreases by exactly 1; with an empty picked table nothing
\* changes.
C10_UnpickLifo ==
  [][last' = "unpick" =>
       IF Len(pp) > 0
         THEN LET top == pp[Len(pp)]
              IN /\ pp' = SubSeq(pp, 1, Len(pp) - 1)
                 /\ Keys(ap') = Keys(ap) \cup {top.key}
                 /\ RowAt(ap', top.key).id = top.id
                 /\ \A r \in Rows(ap) : RowAt(ap', r.key).id = r.id
                 /\ (draft_mode => \A r \in Rows(pp) : r.pick <= top.pick)
                 /\ i_manager_turn' = IF draft_mode THEN i_manager_turn - 1
                                      ELSE i_manager_turn
         ELSE /\ ap' = Fresh.ap
              /\ pp' = pp
              /\ i_manager_turn' = i_manager_turn
              /\ draft_mode' = draft_mode]_vars

C10_Witness ==
  /\ last = "unpick"
  /\ "replacing" \in out
  /\ draft_mode
  /\ Len(pp) >= 1
  /\ Len(ap) >= 2

\* C11: for every rule set and stat record get_points returns the weighted
\* sum of the formula, the yardage bonuses counted per whole 25 passing yards
\* and per whole 10 rushing or receiving yards (rounded down), an absent key
\* read as 0; a record whose stats are all zero or absent scores 0.
C11_WeightedSum ==
  calc.fn = "get_points" =>
    LET rs == calc.rs
        stat(k) == IF k \in DOMAIN calc.df THEN calc.df[k] ELSE 0
        floor(x, per) == CHOOSE q \in (0 - 1000)..1000 :
                           per * q <= x /\ x < per * (q + 1)
        pts == rs.ppPY * stat("pass_yds") + rs.ppPY25 * floor(stat("pass_yds"), 25)
               + rs.ppPC * stat("pass_cmp")
               + rs.ppINC * (stat("pass_att") - stat("pass_cmp"))
               + rs.ppPTD * stat("pass_td") + rs.ppINT * stat("pass_int")
               + rs.pp2PC * stat("pass_twoptm")
               + rs.ppRY * stat("rush_yds") + rs.ppRY10 * floor(stat("rush_yds"), 10)
               + rs.ppRTD * stat("rush_td") + rs.pp2PR * stat("rush_twoptm")
               + rs.ppREY * stat("rec_yds") + rs.ppREY10 * floor(stat("rec_yds"), 10)
               + rs.ppREC * stat("rec") + rs.ppRETD * stat("rec_td")
               + rs.pp2PRE * stat("rec_twoptm")
               + rs.ppFUML * stat("fumbles_lost") + rs.ppPAT * stat("xpm")
               + rs.ppFGM * (stat("fga") - stat("fgm")) + rs.ppFG0 * stat("fgm")
    IN /\ calc.result = pts
       /\ ((\A k \in StatKeys : stat(k) = 0) => calc.result = 0)

C11_Witness ==
  /\ calc.fn = "get_points"
  /\ "rush_yds" \in DOMAIN calc.df
  /\ calc.df["rush_yds"] < 0
  /\ "pass_yds" \notin DOMAIN calc.df
  /\ calc.rs.ppRY10 # 0
  /\ calc.result # 0

\* the sum of the first k elements of seq
RECURSIVE SumTo(_, _)
SumTo(seq, k) == IF k = 0 THEN 0 ELSE SumTo(seq, k - 1) + seq[k]

C13_BetaGrowsByLr ==
  (calc.fn = "get_rps" /\ calc.data.shape = 1) =>
    LET r == calc.result
        m == Len(calc.data.vals)
        b0 == (calc.p0.den - calc.p0.num) \div calc.p0.num
        beta(i) == r.ps[i].den - 1
    IN /\ Len(r.rs) = m + 1 /\ Len(r.ps) = m + 1
       /\ \A i \in 1..(m + 1) :
            /\ r.rs[i] = calc.r0 + calc.lr * SumTo(calc.data.vals, i - 1)
            /\ r.ps[i].num = 1
            /\ beta(i) = b0 + calc.lr * (i - 1)
       /\ (calc.data.vals = <<3, 5, 2>> /\ calc.lr = 1
             => /\ r.rs = <<calc.r0, calc.r0 + 3, calc.r0 + 8, calc.r0 + 10>>
                /\ <<beta(1), beta(2), beta(3), beta(4)>> = <<b0, b0 + 1, b0 + 2, b0 + 3>>)

\* C14: the constant-Gaussian kld with variance 0 does not fail; it logs a
\* warning and returns the constant model's kld for the same data and mean.
C14_ZeroVarianceDegrades ==
  (calc.fn = "gauss_kld" /\ calc.var = 0) =>
    /\ calc.result.exc = ""
    /\ calc.result.warned
    /\ calc.result.ret = delta_kld(calc.data, calc.mu)

\* C15: for each rushing model a position other than QB, RB or WR raises an
\* unsupported-position error instead of returning a value, and QB, RB and
\* WR in any letter case return a vector of 5 (attempts), 11 (yards) or 5
\* (touchdowns) values.
C15_UnsupportedPositionRaises ==
  calc.fn = "default_hyperpars" =>
    IF Upper(calc.pos) \in {"QB", "RB", "WR"}
      THEN /\ calc.result.exc = ""
           /\ Len(calc.result.ret) = (IF calc.model = "rush_yds" THEN 11 ELSE 5)
      ELSE calc.result.exc # ""

\* C16: after the value pipeline has run, for each of QB, RB, WR, TE, K and
\* DST the minimum vols among that position's tiered players (every player
\* whose final tier is not FA) is exactly 0.
C16_TieredMinIsZero ==
  (calc.fn = "main" /\ calc.result.exc = "") =>
    \A k \in DOMAIN main_positions :
      LET tiered == {i \in AtPos(calc.result.df, main_positions[k]) :
                      calc.result.df[i].tier # "FA"}
      IN /\ tiered # {}
         /\ QMin({calc.result.df[i].vols : i \in tiered}) = Q(0, 1)

\* C16 (amended): after the value pipeline has run, for each of QB, K and
\* DST the minimum vols among that position's starters (every player whose
\* final tier is neither BU nor FA) is exactly 0, and for each of RB, WR and
\* TE that minimum is at least 0.
C16_StarterMinIsZero ==
  (calc.fn = "main" /\ calc.result.exc = "") =>
    \A k \in DOMAIN main_positions :
      LET starters == {i \in AtPos(calc.result.df, main_positions[k]) :
                        calc.result.df[i].tier \notin {"BU", "FA"}}
          worst == QMin({calc.result.df[i].vols : i \in starters})
      IN /\ starters # {}
         /\ IF main_positions[k] \in flex_pos THEN worst.n >= 0 ELSE worst = Q(0, 1)

\* the pipeline ran on a league with a bench: a backup quarterback sits below
\* the worst starting quarterback, and the worst starting wide receiver sits
\* above zero
C16_Witness ==
  /\ calc.fn = "main" /\ calc.result.exc = ""
  /\ \E i \in AtPos(calc.result.df, "QB") :
       calc.result.df[i].tier = "BU" /\ calc.result.df[i].vols.n < 0
  /\ \E i \in AtPos(calc.result.df, "QB") :
       calc.result.df[i].tier = "QB1" /\ calc.result.df[i].vols = Q(0, 1)
  /\ \A i \in AtPos(calc.result.df, "WR") :
       calc.result.df[i].tier \notin {"BU", "FA"} => calc.result.df[i].vols.n > 0

\* C17: after the auction rescaling step the sum of auction over all tiered
\* (non-FA) players equals n_teams*200 minus 1 times the total number of
\* rostered slots in the league, within a tolerance of 0.5.
C17_AuctionSumIsAvailCap ==
  (calc.fn = "main" /\ calc.result.exc = "") =>
    LET df == calc.result.df
        tiered == SelectSeq(df, LAMBDA r : r.tier # "FA")
        diff == QSub(QSum(Col(tiered, "auction")), Q(AvailCap(calc.league), 1))
    IN /\ ~calc.result.auction_nan
       /\ ~QLe(Q(1, 2), diff) /\ ~QLe(diff, Q(0 - 1, 2))

\* C17 (amended): after the auction rescaling step, the minimum bid of 1
\* included, the sum of auction over all tiered (non-FA) players equals
\* n_teams*200 minus 1 times the total number of rostered slots in the league
\* plus 1 for every tiered player, within a tolerance of 0.5, whenever some
\* player has a positive unscaled auction value.
C17_AuctionSumWithMinBids ==
  (calc.fn = "main" /\ calc.result.exc = "" /\ ~calc.result.auction_nan) =>
    LET df == calc.result.df
        tiered == SelectSeq(df, LAMBDA r : r.tier # "FA")
        diff == QSub(QSum(Col(tiered, "auction")),
                     Q(calc.league.n_teams * 200
                          - 1 * calc.league.n_teams
                              * (calc.league.roster.QB + calc.league.roster.RB
                                 + calc.league.roster.WR + calc.league.roster.TE
                                 + calc.league.roster.FLEX + calc.league.roster.DST
                                 + calc.league.roster.K + calc.league.roster.BENCH)
                          + Len(tiered), 1))
    IN ~QLe(Q(1, 2), diff) /\ ~QLe(diff, Q(0 - 1, 2))

\* the pipeline priced a league with bench slots: some player is worth more
\* than the minimum bid and a tiered player is worth exactly the minimum bid
C17_Witness ==
  /\ calc.fn = "main" /\ calc.result.exc = "" /\ ~calc.result.auction_nan
  /\ calc.league.roster.BENCH > 0
  /\ \E i \in DOMAIN calc.result.df :
       calc.result.df[i].tier # "FA" /\ ~QLe(calc.result.df[i].auction, Q(1, 1))
  /\ \E i \in DOMAIN calc.result.df :
       calc.result.df[i].tier = "BU" /\ calc.result.df[i].auction = Q(1, 1)

\* the pick commands C18 is about: issued in draft mode, the pick made (the
\* player was moved to pp), and the shell prompts again
C18_Pick ==
  /\ last' = "pick"
  /\ ~crashed
  /\ ~crashed'
  /\ draft_mode
  /\ "selecting" \in out'

\* the rows of pp' the automatic picks of the command added: each carries a
\* turn of the draft order as its pick number, the manager of that turn, who
\* drafts automatically, as its manager, and comes after the rows of all
\* earlier turns
C18_Recorded ==
  \A j \in DOMAIN pp' :
    (pp'[j].key \notin Keys(pp) /\ pp'[j].pick # i_manager_turn + 1) =>
      /\ pp'[j].pick \in (i_manager_turn + 2)..Len(manager_picks')
      /\ pp'[j].manager = manager_picks'[pp'[j].pick]
      /\ pp'[j].manager \in DOMAIN manager_auto_strats'
      /\ \A i \in DOMAIN pp' :
           (pp'[i].key \notin Keys(pp) /\ pp'[i].pick < pp'[j].pick) => i < j
      /\ \A q \in (i_manager_turn + 2)..(pp'[j].pick - 1) :
           \E i \in DOMAIN pp' : pp'[i].key \notin Keys(pp) /\ pp'[i].pick = q

\* C18 as stated: after any successful pick in draft mode, when the shell
\* next prompts the draft has ended or the manager on turn has no registered
\* automatic strategy, and every automatic pick is recorded with its manager
\* and its own pick number before the next one starts.
C18_ChainReachesHuman ==
  [][C18_Pick =>
       /\ \/ i_manager_turn' >= Len(manager_picks')
          \/ manager_picks'[i_manager_turn' + 1] \notin DOMAIN manager_auto_strats'
       /\ C18_Recorded]_vars

\* C18, amended: the chain also stops, with an automatic manager on turn,
\* when an automatic pick finds no player to take ('could not pick player
\* from list.') and when the answer at 'Are you done [y/N]? ' is not y (the
\* last pick is undone and its manager is on turn again).
C18_ChainStops ==
  [][C18_Pick =>
       /\ \/ i_manager_turn' >= Len(manager_picks')
          \/ manager_picks'[i_manager_turn' + 1] \notin DOMAIN manager_auto_strats'
          \/ "could not pick player from list." \in out'
          \/ "Undoing last pick" \in out'
       /\ C18_Recorded]_vars

\* a pick to which an automatic pick was chained, back at a manager who
\* drafts by hand
C18_Witness ==
  /\ last = "pick"
  /\ ~crashed
  /\ draft_mode
  /\ "selecting" \in out
  /\ "Undoing last pick" \notin out
  /\ "could not pick player from list." \notin out
  /\ i_manager_turn < Len(manager_picks)
  /\ GetCurrentManager(Cur) \notin DOMAIN manager_auto_strats
  /\ Len(pp) >= 2
  /\ pp[Len(pp)].manager \in DOMAIN manager_auto_strats
  /\ pp[Len(pp)].pick = i_manager_turn
  /\ pp[Len(pp)].manager = manager_picks[i_manager_turn]

\* the states C19 is about: recommend has printed its vona recommendations
\* for a manager whose next turn follows at once (no other manager picks in
\* between)
C19_PicksAgainAtOnce ==
  /\ last = "recommend"
  /\ ~crashed
  /\ manager_picks # <<>>
  /\ i_manager_turn < Len(manager_picks)
  /\ GetManagersTilNext(Cur).mans = <<>>

\* C19: when vona is requested for a manager who picks again immediately,
\* _pick_rec falls back to vols: it prints the warning and returns an
\* available player with the highest vols among the allowed positions.
C19_VonaFallsBackToVols ==
  C19_PicksAgainAtOnce =>
    \A strat \in DOMAIN recs.vona :
      /\ recs.vona[strat].fallback
      /\ "VONA is not well-defined. will return VOLS." \in out
      /\ recs.vona[strat].pick \in
           PickRec(GetCurrentManager(Cur), "vols", ap, pp, pp_cols,
                   Range(disabled_pos)).cands

\* C20: while a position is disabled neither recommend nor a pick made by a
\* strategy (pick <strategy>, or an automatic pick) selects a player at that
\* position: every player recommend prints, every row that pick vols adds to
\* pp and every row an automatic pick adds is at an enabled position.
C20_DisabledNeverSelected ==
  [][/\ (last' = "recommend" /\ ~crashed') =>
          /\ \A strat \in DOMAIN recs'.strat :
               PD(RowAt(ap', recs'.strat[strat]).id).pos \notin Range(disabled_pos')
          /\ \A strat \in DOMAIN recs'.vona :
               PD(RowAt(ap', recs'.vona[strat].pick).id).pos \notin Range(disabled_pos')
     /\ (last' \in {"pick", "snake"} /\ ~crashed') =>
          \A j \in DOMAIN pp' :
            (/\ pp'[j].key \notin Keys(pp)
             /\ \/ draft_mode /\ Pick(<<"vols">>)
                \/ pp'[j].pick \notin {NaN, i_manager_turn + 1}) =>
              PD(pp'[j].id).pos \notin Range(disabled_pos)]_vars

\* C21: recommend and print_vona, and the VONA simulation they run, never
\* pick: across such a command the members of the available and of the
\* picked table, i_manager_turn, manager_picks and manager_auto_strats stay
\* exactly as they were.
C21_SimulationNeverPicks ==
  [][last' \in {"recommend", "print_vona"} =>
       /\ {<<r.key, r.id>> : r \in Rows(ap')} = {<<r.key, r.id>> : r \in Rows(ap)}
       /\ pp' = pp
       /\ i_manager_turn' = i_manager_turn
       /\ manager_picks' = manager_picks
       /\ manager_auto_strats' = manager_auto_strats]_vars

\* recommend has simulated the picks of another manager, taken by every vona
\* sub-strategy, and has printed a vona recommendation for each
C21_Witness ==
  /\ last = "recommend"
  /\ ~crashed
  /\ draft_mode
  /\ Len(GetManagersTilNext(Cur).mans) = 1
  /\ DOMAIN recs.vona = Range(vona_strats)
  /\ \A strat \in Range(vona_strats) : ~recs.vona[strat].fallback


\* C22: for a position without any backup-tier player, whose worst starter
\* has vols 0 as the value pipeline leaves it, every available player's vorp
\* equals its vols after the recompute that precedes a command, whatever
\* players of the position have been picked.
C22_VorpIsVolsWithoutBackups ==
  \A pos \in Range(main_positions) :
    LET all == {r \in Rows(ap) \cup Rows(pp) : PD(r.id).pos = pos}
        starters == {r \in all : PD(r.id).tier # "FA"}
    IN (/\ starters # {}
        /\ \A r \in all : PD(r.id).tier # "BU"
        /\ Min({PD(r.id).vols : r \in starters}) = 0) =>
         \A r \in Rows(Fresh.ap) :
           PD(r.id).pos = pos => r.vorp = PD(r.id).vols


\* the starters of pos in the finished table: the rows that carried a tier
\* when the rank benchmarks were computed
C23_Starters(pos) ==
  Cardinality({i \in AtPos(calc.result.df, pos) :
                calc.result.df[i].tier \notin {"BU", "FA"}})

\* the least integer that is at least count / ((15/16) * (percent/100))
C23_CeilOverProbPlay(count, percent) ==
  0 - ((0 - count * 16 * 100) \div (15 * percent))

\* C23: the rank-benchmark count of every position is
\* ceil(tiered_starter_count / (bye_factor * position_injury_factor)) with
\* bye_factor 15/16 and injury factors QB 0.94, RB 0.85, WR 0.89, TE 0.89,
\* DST 1.0, K 1.0; for K and DST this is ceil(count * 16/15).
C23_BenchmarkByeAndInjury ==
  (calc.fn = "main" /\ calc.result.exc = "") =>
    \A pos \in Range(main_positions) :
      calc.result.rank_benchmark[pos] =
        C23_CeilOverProbPlay(C23_Starters(pos),
          [QB |-> 94, RB |-> 85, WR |-> 89, TE |-> 89, DST |-> 100, K |-> 100][pos])

\* C23 (amended): the rank-benchmark count of each of QB, RB, WR and TE is
\* ceil(tiered_starter_count / (bye_factor * position_injury_factor)) with
\* bye_factor 15/16 and injury factors QB 0.94, RB 0.85, WR 0.89, TE 0.89;
\* for K and DST it is the tiered starter count itself.
C23_BenchmarkKickersUnscaled ==
  (calc.fn = "main" /\ calc.result.exc = "") =>
    \A pos \in Range(main_positions) :
      calc.result.rank_benchmark[pos] =
        IF pos \in {"K", "DST"} THEN C23_Starters(pos)
        ELSE C23_CeilOverProbPlay(C23_Starters(pos),
               [QB |-> 94, RB |-> 85, WR |-> 89, TE |-> 89][pos])

\* the pipeline ran: a kicker and a defense start, and the benchmark of the
\* running backs lies above their number of starters
C23_Witness ==
  /\ calc.fn = "main" /\ calc.result.exc = ""
  /\ C23_Starters("K") >= 1
  /\ C23_Starters("DST") >= 1
  /\ calc.result.rank_benchmark["RB"] > C23_Starters("RB")


\* C24: for every suspension record, g is reduced only for players whose
\* position equals the record's position, by the exact match and by the
\* fuzzy fallback alike: a player at whose position no record with a known
\* suspension time names anyone keeps the 15 games.
C24_OnlyMatchingPosition ==
  (calc.fn = "suspensions" /\ calc.result.exc = "") =>
    \A i \in DOMAIN calc.df :
      calc.result.g[i] # 15 =>
        \E k \in DOMAIN calc.sussdf :
          /\ calc.sussdf[k].pos = calc.df[i].pos
          /\ calc.sussdf[k].gsus # NaN


\* C25: in draft mode without load, whenever the shell is at the prompt with
\* i_manager_turn <= len(manager_picks), the number of picked players equals
\* i_manager_turn, and the k-th picked player carries pick = k and
\* manager = manager_picks[k-1]; hence no manager holds more players than
\* the roster slots of a team.
C25_PicksFollowTheOrder ==
  (draft_mode /\ ~crashed /\ i_manager_turn # None
     /\ i_manager_turn <= Len(manager_picks)) =>
    /\ Len(pp) = i_manager_turn
    /\ \A k \in DOMAIN pp :
         /\ pp[k].pick = k
         /\ pp[k].manager = manager_picks[k]
    /\ \A m \in Range(manager_picks) :
         Cardinality({k \in DOMAIN pp : pp[k].manager = m})
           <= TotalRosterSpots


\* an unpick in draft mode has taken back the last pick and left at least
\* two, one of them made by another manager than the user
C25_Witness ==
  /\ draft_mode /\ ~crashed /\ last = "unpick"
  /\ i_manager_turn = Len(pp)
  /\ Len(pp) >= 2
  /\ \E k \in DOMAIN pp : pp[k].manager # user_manager


\* C26: after any sequence of commands every value stored in
\* manager_auto_strats is one of the known strategies, for every form of
\* pick <arg> auto and of snake N <strat...>.
C26_AutoStratsAreKnown ==
  \A m \in DOMAIN manager_auto_strats :
    manager_auto_strats[m] \in known_strategies


\* C27: after save L followed by load L the row keys of the reloaded
\* available and picked tables are disjoint, and any later pick or unpick
\* moves exactly one player without overwriting or losing another: the
\* players of the two tables together stay the saved players, each once.
C27_ReloadKeepsPlayers ==
  ~crashed =>
    /\ last = "load" => Keys(ap) \cap Keys(pp) = {}
    /\ {r.id : r \in Rows(ap)} \cup {r.id : r \in Rows(pp)} = {0, 1, 4}
    /\ Len(ap) + Len(pp) = 3


\* C28: for every snake order and every turn t whose manager has a later
\* turn, the manager list the VONA simulation uses (the result of
\* _get_managers_til_next followed by its reverse) is manager_picks[t+1 .. u-1],
\* u being that manager's next turn; it is empty exactly when the manager
\* picks again at once.
C28_SimulatedAreTheTurnsBetween ==
  draft_mode =>
    \A t \in 0..(Len(manager_picks) - 1) :
      LET later == {u \in (t + 1)..(Len(manager_picks) - 1) :
                      manager_picks[u + 1] = manager_picks[t + 1]}
          managers == SimulatedManagers(
                        GetManagersTilNext([Cur EXCEPT !.i_manager_turn = t]).mans)
      IN later # {} =>
           /\ managers = SubSeq(manager_picks, t + 2, Min(later))
           /\ (managers = <<>>) <=> (Min(later) = t + 1)

\* a draft of four teams and at least three rounds has started: for the turn
\* it is at, the picks of the three other managers and then the same three
\* in reverse order are simulated
C28_Witness ==
  /\ draft_mode /\ ~crashed /\ last = "snake"
  /\ n_teams = 4
  /\ Len(manager_picks) >= 12
  /\ i_manager_turn = 0
  /\ SimulatedManagers(GetManagersTilNext(Cur).mans) = <<2, 3, 4, 4, 3, 2>>


\* C29: in the greedy baseline pass, for any player list whose RB, WR and TE
\* players together supply at least the games the RB, WR, TE and FLEX budgets
\* demand (16 times the league-wide slots, n_flex >= 1), the FLEX games
\* budget never drops below zero, and a FLEX baseline and a baseline for
\* every position are assigned before the pass ends.
C29_FlexBudgetStaysNonNegative ==
  (/\ calc.fn = "main"
   /\ calc.league.roster.FLEX >= 1
   /\ SumTo([i \in DOMAIN calc.df |->
              IF calc.df[i].pos \in flex_pos THEN calc.df[i].g ELSE 0], Len(calc.df))
        >= 16 * calc.league.n_teams
              * (calc.league.roster.RB + calc.league.roster.WR
                 + calc.league.roster.TE + calc.league.roster.FLEX)) =>
    /\ calc.result.flex_low >= 0
    /\ calc.result.exc = ""


\* a player is available at every position
C30_Supply == \A k \in DOMAIN main_positions : Len(PosRows(ap, main_positions[k])) > 0

\* the roster of manager fills every slot of a team: as many players as a
\* team has slots, at each position at least its starters, and beyond them
\* enough RB, WR and TE for the FLEX slots
C30_RosterFull(manager) ==
  LET roster == GetManagerRoster(manager, pp, pp_cols)
      have(pos) == Len(PosRows(roster, pos))
  IN /\ Len(roster) = TotalRosterSpots
     /\ \A k \in DOMAIN main_positions :
          have(main_positions[k]) >= n_roster_per_team[main_positions[k]]
     /\ (have("RB") - n_roster_per_team.RB) + (have("WR") - n_roster_per_team.WR)
          + (have("TE") - n_roster_per_team.TE) >= n_roster_per_team.FLEX

\* the draft is over and every manager that drafts by a strategy has a full
\* roster
C30_Done ==
  /\ draft_mode /\ ~crashed
  /\ i_manager_turn = Len(manager_picks)
  /\ \A m \in DOMAIN manager_auto_strats : C30_RosterFull(m)

\* C30: in a snake draft with one K and one DST slot per team, in which a
\* manager's every pick is made automatically by a sort-key strategy and
\* players remain available at each position, the draft eventually ends and
\* that manager's final roster has exactly the total number of roster slots,
\* at least the starters of every position and enough RB, WR and TE for the
\* FLEX slots.  (A draft leaves the claim's case when a position runs out of
\* players or when the user answers the end of the draft by undoing a pick.)
C30_AutoDraftCompletes ==
  (draft_mode /\ i_manager_turn < Len(manager_picks))
    ~> (\/ ~C30_Supply
        \/ "Undoing last pick" \in out
        \/ C30_Done)

====
